---- MODULE Spec2Model ----
(***************************************************************************)
(* System dynamics simulation engine (rssdsim): expression evaluator, step *)
(* evaluator, integrator family and engine driver.                         *)
(*                                                                         *)
(* Numbers.  The program computes in f64.  The model computes in exact     *)
(* rationals [n |-> numerator, d |-> denominator > 0] in lowest terms, so  *)
(* that 100 * 0.1 is 10 and comparisons against stop, thresholds and       *)
(* tolerances are decided exactly.  TLC integers are 32 bit wide; every    *)
(* model and time configuration below keeps numerators and denominators    *)
(* inside that range.                                                      *)
(***************************************************************************)
EXTENDS Integers, Sequences, FiniteSets, TLC

\* model .. engine: the engines built over one model and configuration.
\* pipeline: a PipelineDelay driven directly through push and
\* get_delayed_value.  call: one evaluation of an expression.  text: one
\* call of Expression::parse.  resolve: one fixed-point iteration over the
\* auxiliaries, pass by pass.
VARIABLES model, time_config, config, seed, err_profile, engine, pipeline, call, text, resolve

vars == <<model, time_config, config, seed, err_profile, engine, pipeline, call, text, resolve>>

-----------------------------------------------------------------------------
(* Exact rational arithmetic standing for f64 arithmetic.                   *)

Abs(x) == IF x < 0 THEN -x ELSE x

RECURSIVE GCD(_, _)
GCD(a, b) == IF b = 0 THEN a ELSE GCD(b, a % b)

\* n / d over the common divisor g, with a positive denominator
Lowest(n, d, g) == [n |-> (IF d < 0 THEN -n ELSE n) \div g, d |-> (IF d < 0 THEN -d ELSE d) \div g]

Rat(n, d) == Lowest(n, d, GCD(Abs(n), Abs(d)))

Zero == [n |-> 0, d |-> 1]
One == [n |-> 1, d |-> 1]

\* a + b, g the common divisor of the denominators
SumOver(a, b, g) == Rat(a.n * (b.d \div g) + b.n * (a.d \div g), (a.d \div g) * b.d)

RAdd(a, b) == SumOver(a, b, GCD(a.d, b.d))

RNeg(a) == [n |-> -a.n, d |-> a.d]
RSub(a, b) == RAdd(a, RNeg(b))

\* a * b, g1 and g2 the common divisors across the fractions
ProductOver(a, b, g1, g2) == Rat((a.n \div g1) * (b.n \div g2), (a.d \div g2) * (b.d \div g1))

RMul(a, b) == ProductOver(a, b, GCD(Abs(a.n), b.d), GCD(Abs(b.n), a.d))

RInv(a) == Rat(a.d, a.n)
RDiv(a, b) == RMul(a, RInv(b))

RSign(a) == IF a.n > 0 THEN 1 ELSE IF a.n < 0 THEN -1 ELSE 0
\* a < b, g the common divisor of the denominators
LessOver(a, b, g) == a.n * (b.d \div g) < b.n * (a.d \div g)

RLt(a, b) == LessOver(a, b, GCD(a.d, b.d))
RLe(a, b) == ~LessOver(b, a, GCD(a.d, b.d))
RGt(a, b) == RLt(b, a)
RGe(a, b) == RLe(b, a)
RAbs(a) == [n |-> Abs(a.n), d |-> a.d]
RMax(a, b) == IF RLt(a, b) THEN b ELSE a
RMin(a, b) == IF RLt(b, a) THEN b ELSE a
\* f64::floor, as an integer
RFloor(a) == a.n \div a.d

\* |x| > 1e-10 and |x| < 1e-10.  A rational in lowest terms with a 32-bit
\* denominator is either 0 or at least 1/2^31 > 1e-10 in magnitude, so on
\* the values of this model the 1e-10 tolerance tells zero from non-zero.
ExceedsTolerance(x) == x.n # 0
WithinTolerance(x) == x.n = 0

-----------------------------------------------------------------------------
(* Expression (src/model/expression.rs): the tagged tree.                   *)

Constant(val) == [kind |-> "Constant", val |-> val]
Variable(name) == [kind |-> "Variable", name |-> name]
BinaryOp(op, left, right) == [kind |-> "BinaryOp", op |-> op, left |-> left, right |-> right]
UnaryOp(op, expr) == [kind |-> "UnaryOp", op |-> op, expr |-> expr]
FunctionCall(name, args) == [kind |-> "FunctionCall", name |-> name, args |-> args]
Conditional(condition, true_expr, false_expr) == [kind |-> "Conditional", condition |-> condition, true_expr |-> true_expr, false_expr |-> false_expr]

Num(k) == Constant([n |-> k, d |-> 1])

\* Option<f64>
None == [some |-> FALSE, v |-> Zero]
Some(x) == [some |-> TRUE, v |-> x]

\* Stock::new, with_inflows, with_outflows, with_non_negative, with_max_value
Stock(initial, inflows, outflows, non_negative, max_value) == [initial |-> initial, inflows |-> inflows, outflows |-> outflows, non_negative |-> non_negative, max_value |-> max_value]

\* HashMap<String, _> with no entry
EmptyMap == [k \in {} |-> Zero]

-----------------------------------------------------------------------------
(* The models the engine is run on.  A model is named by a string; its     *)
(* collections are the HashMaps of struct Model.                           *)

ModelNames == {"Growth", "Pulse", "Tank", "Debt", "Chain", "Missing", "Dice", "Lag", "Pipe", "Sites", "Clock", "Echo"}

\* the models with delay call sites
DelayModels == {"Lag", "Pipe", "Sites"}

\* the largest depth of a chain of auxiliaries
MaxDepth == 7

\* the models named "Ladder<k>" and their auxiliaries "a<i>": a chain of
\* auxiliaries of depth k
LadderNames == <<"Ladder1", "Ladder2", "Ladder3", "Ladder4", "Ladder5", "Ladder6", "Ladder7", "Ladder8", "Ladder9">>
Rungs == <<"a1", "a2", "a3", "a4", "a5", "a6", "a7", "a8", "a9">>
Ladders == {LadderNames[k] : k \in 1..MaxDepth}
depth_of(m) == CHOOSE k \in 1..MaxDepth : LadderNames[k] = m
rung_of(name) == CHOOSE i \in 1..MaxDepth : Rungs[i] = name

\* the models over which the resolution of the auxiliaries is observed: the
\* ladders, two auxiliaries that refer to each other, and an auxiliary that
\* refers to a name the model does not have
AuxModels == Ladders \cup {"Cycle", "Ghost"}

\* the equation of rung i of a ladder of depth k: a1 = Level, a<i> = a<i-1>,
\* and the top rung a<k> = 1 / a<k-1>
rung_equation(i, k) ==
    IF i = 1 THEN Variable("Level")
    ELSE IF i = k THEN BinaryOp("Divide", Num(1), Variable(Rungs[i - 1]))
    ELSE Variable(Rungs[i - 1])

\* model.parameters
ParametersOf(m) ==
    CASE m = "Growth" -> ("growth_rate" :> Rat(1, 10))
      [] m = "Sites" -> ("x_5" :> Rat(4, 1)) @@ ("x" :> Rat(2, 1))
      [] OTHER -> EmptyMap

\* model.stocks
StocksOf(m) ==
    CASE m = "Growth" -> ("Population" :> Stock(Num(100), <<"growth">>, <<>>, FALSE, None))
      [] m = "Pulse" -> ("Total" :> Stock(Num(0), <<"pulse">>, <<>>, FALSE, None))
      [] m = "Tank" -> ("Tank" :> Stock(Num(5), <<>>, <<"drain">>, TRUE, None))
      [] m = "Debt" -> ("Debt" :> Stock(UnaryOp("Negate", Num(5)), <<"pay">>, <<>>, TRUE, None))
                       @@ ("Over" :> Stock(Num(20), <<>>, <<>>, FALSE, Some(Rat(10, 1))))
      [] m = "Chain" -> ("Level" :> Stock(Num(2), <<"g">>, <<>>, FALSE, None))
      [] m = "Missing" -> ("S" :> Stock(Num(1), <<"real", "ghost">>, <<>>, FALSE, None))
      [] m = "Dice" -> ("A" :> Stock(Num(0), <<"fa">>, <<>>, FALSE, None))
                       @@ ("B" :> Stock(Num(0), <<"fb">>, <<>>, FALSE, None))
      [] m = "Lag" -> ("Seen" :> Stock(Num(0), <<"lagged">>, <<>>, FALSE, None))
      [] m = "Pipe" -> ("Heard" :> Stock(Num(0), <<"echo">>, <<>>, FALSE, None))
      [] m = "Sites" -> ("P" :> Stock(Num(0), <<"lag_a">>, <<>>, FALSE, None))
                        @@ ("Q" :> Stock(Num(0), <<"lag_b">>, <<>>, FALSE, None))
      [] m \in AuxModels -> ("Level" :> Stock(Num(2), <<"g">>, <<>>, FALSE, None))
      [] m = "Clock" -> ("Elapsed" :> Stock(Num(0), <<"clock">>, <<>>, FALSE, None))
      [] m = "Echo" -> ("Sum" :> Stock(Num(0), <<"copy">>, <<>>, FALSE, None))

\* model.flows (each entry is the flow's equation)
FlowsOf(m) ==
    CASE m = "Growth" -> ("growth" :> BinaryOp("Multiply", Variable("Population"), Variable("growth_rate")))
      [] m = "Pulse" -> ("pulse" :> FunctionCall("PULSE", <<Num(5), Num(2)>>))
      [] m = "Tank" -> ("drain" :> Num(10))
      [] m = "Debt" -> ("pay" :> Num(1))
      [] m = "Chain" -> ("f" :> BinaryOp("Multiply", Variable("inv"), Num(2))) @@ ("g" :> Num(1))
      [] m = "Missing" -> ("real" :> Num(1))
      [] m = "Dice" -> ("fa" :> FunctionCall("RANDOM", <<>>)) @@ ("fb" :> FunctionCall("RANDOM", <<>>))
      [] m = "Lag" -> ("lagged" :> FunctionCall("DELAY1", <<Num(1), Num(10), Num(0)>>))
                      @@ ("lagged3" :> FunctionCall("DELAY3", <<Num(1), Num(3), Num(0)>>))
      [] m = "Pipe" -> ("echo" :> FunctionCall("DELAYP", <<BinaryOp("Add", Variable("TIME"), Num(7)), Num(1), Num(3)>>))
      [] m = "Sites" -> ("lag_a" :> FunctionCall("DELAY1", <<Variable("x_5"), Num(1)>>))
                        @@ ("lag_b" :> FunctionCall("DELAY1", <<Variable("x"), Num(5), Num(1)>>))
      [] m \in AuxModels -> ("g" :> Num(1))
      [] m = "Clock" -> ("clock" :> Variable("TIME"))
                        @@ ("stepped" :> FunctionCall("STEP", <<Num(1), Num(1)>>))
                        @@ ("ramp" :> FunctionCall("RAMP", <<Num(1), Num(0)>>))
                        @@ ("pulsed" :> FunctionCall("PULSE", <<Num(1), Num(1)>>))
      [] m = "Echo" -> ("src" :> BinaryOp("Add", Variable("TIME"), Num(1))) @@ ("copy" :> Variable("src"))

\* model.auxiliaries (each entry is the auxiliary's equation)
AuxiliariesOf(m) ==
    CASE m = "Chain" -> ("base" :> Variable("Level"))
                        @@ ("inv" :> BinaryOp("Divide", Num(1), Variable("base")))
      [] m = "Cycle" -> ("a" :> BinaryOp("Subtract", Num(1), Variable("b"))) @@ ("b" :> Variable("a"))
      [] m = "Ghost" -> ("x" :> Variable("nowhere"))
      [] m = "Echo" -> ("seen" :> Variable("src"))
      [] m \in Ladders -> [name \in {Rungs[i] : i \in 1..depth_of(m)} |-> rung_equation(rung_of(name), depth_of(m))]
      [] OTHER -> EmptyMap

-----------------------------------------------------------------------------
(* StochasticManager (src/simulation/stochastic.rs).  The generator is a    *)
(* seeded stream: its state is the seed and the number of samples drawn.    *)

RngModulus == 5

\* StdRng::seed_from_u64(seed)
with_seed(s) == [seed |-> s, pos |-> 0]

\* the pos-th sample of the stream of a seed, a value in [0, 1)
Sample(stochastic) == Rat((3 * stochastic.seed + 2 * stochastic.pos + 1) % RngModulus, RngModulus)

\* StochasticManager::random: the sample, and the advanced generator
random(stochastic) == [val |-> Sample(stochastic), stochastic |-> [stochastic EXCEPT !.pos = @ + 1]]

-----------------------------------------------------------------------------
(* impl fmt::Display for Expression: the text of an expression, from which  *)
(* the key of a delay call site is built.                                   *)

Digits == <<"0", "1", "2", "3", "4", "5", "6", "7", "8", "9">>

RECURSIVE fmt_nat(_)
\* the decimal digits of a natural number
fmt_nat(k) == IF k < 10 THEN Digits[k + 1] ELSE fmt_nat(k \div 10) \o Digits[(k % 10) + 1]

\* write!(f, "{}", val) for an f64: "5" for 5.0, "-5" for -5.0, "0.5" for
\* 0.5.  The constants the models print are whole or have one decimal digit.
fmt_f64(val) ==
    LET k == (Abs(val.n) * 10) \div val.d
    IN  (IF val.n < 0 THEN "-" ELSE "")
        \o fmt_nat(k \div 10)
        \o (IF k % 10 = 0 THEN "" ELSE "." \o Digits[(k % 10) + 1])

\* the match on op in fmt
op_str(op) ==
    CASE op = "Add" -> "+"
      [] op = "Subtract" -> "-"
      [] op = "Multiply" -> "*"
      [] op = "Divide" -> "/"
      [] op = "Power" -> "^"
      [] op = "GreaterThan" -> ">"
      [] op = "LessThan" -> "<"
      [] op = "GreaterEqual" -> ">="
      [] op = "LessEqual" -> "<="
      [] op = "Equal" -> "=="
      [] op = "NotEqual" -> "!="

RECURSIVE fmt(_)
RECURSIVE fmt_args(_, _, _)

\* the arguments of a call, each printed, joined by sep
fmt_args(args, i, sep) ==
    IF i > Len(args) THEN ""
    ELSE (IF i > 1 THEN sep ELSE "") \o fmt(args[i]) \o fmt_args(args, i + 1, sep)

\* Display::fmt
fmt(e) ==
    CASE e.kind = "Constant" -> fmt_f64(e.val)
      [] e.kind = "Variable" -> e.name
      [] e.kind = "BinaryOp" -> "(" \o fmt(e.left) \o " " \o op_str(e.op) \o " " \o fmt(e.right) \o ")"
      [] e.kind = "UnaryOp" -> "(-" \o fmt(e.expr) \o ")"
      [] e.kind = "FunctionCall" -> e.name \o "(" \o fmt_args(e.args, 1, ", ") \o ")"
      [] e.kind = "Conditional" -> "IF " \o fmt(e.condition) \o " THEN " \o fmt(e.true_expr) \o " ELSE " \o fmt(e.false_expr)

\* format!("{}_{}", name, args.iter().map(|a| format!("{}", a)).collect::<Vec<_>>().join("_"))
delay_key(name, args) == name \o "_" \o fmt_args(args, 1, "_")

-----------------------------------------------------------------------------
(* Delays (src/simulation/delay.rs).                                        *)

\* ExponentialDelay::new
ExponentialDelay_new(initial_value, delay_time, order) ==
    [value |-> initial_value, delay_time |-> delay_time, order |-> order,
     stages |-> [i \in 1..order |-> initial_value]]

\* ExponentialDelay::update.  A division by a zero delay time is NaN in the
\* program; the models' delay times are positive.
ExponentialDelay_update(delay, input, dt) ==
    IF delay.order = 1
    THEN LET derivative == RDiv(RSub(input, delay.value), delay.delay_time)
             value == RAdd(delay.value, RMul(derivative, dt))
         IN  [delay EXCEPT !.value = value, !.stages = <<value>>]
    ELSE LET stage_delay == RDiv(delay.delay_time, Rat(delay.order, 1))
             new_stages == [i \in 1..delay.order |->
                 IF i = 1
                 THEN RAdd(delay.stages[1], RMul(RDiv(RSub(input, delay.stages[1]), stage_delay), dt))
                 ELSE RAdd(delay.stages[i], RMul(RDiv(RSub(delay.stages[i - 1], delay.stages[i]), stage_delay), dt))]
         IN  [delay EXCEPT !.stages = new_stages, !.value = new_stages[delay.order]]

\* PipelineDelay::new
PipelineDelay_new(initial_value, delay_time) ==
    [history |-> <<>>, delay_time |-> delay_time, initial_value |-> initial_value]

RECURSIVE prune(_, _)
\* "Remove old values that are too far in the past": while more than two
\* samples are kept, the front is dropped if it is older than the cutoff
prune(history, cutoff_time) ==
    IF Len(history) > 2 /\ RLt(history[1].t, cutoff_time) THEN prune(Tail(history), cutoff_time)
    ELSE history

\* PipelineDelay::push
push(delay, time, value) ==
    [delay EXCEPT !.history = prune(Append(delay.history, [t |-> time, v |-> value]),
                                    RSub(time, RMul(delay.delay_time, Rat(2, 1))))]

\* the least element of a non-empty set of indices
least(S) == CHOOSE i \in S : \A k \in S : i <= k

\* "let alpha = (target_time - t1) / (t2 - t1); v1 + alpha * (v2 - v1)"
interpolate_history(history, i, target_time) ==
    RAdd(history[i - 1].v,
         RMul(RDiv(RSub(target_time, history[i - 1].t), RSub(history[i].t, history[i - 1].t)),
              RSub(history[i].v, history[i - 1].v)))

\* get_delayed_value from the target time and the indices of the samples
\* at or after it
delayed_value_at(delay, target_time, at_or_after) ==
    IF delay.history = <<>> THEN delay.initial_value
    ELSE IF RLe(target_time, delay.history[1].t) THEN delay.initial_value
    ELSE IF at_or_after # {}
    THEN IF least(at_or_after) = 1 THEN delay.initial_value
         ELSE interpolate_history(delay.history, least(at_or_after), target_time)
    ELSE delay.history[Len(delay.history)].v

\* the indices of the samples of history at or after target_time
samples_at_or_after(history, target_time) == {i \in 1..Len(history) : RGe(history[i].t, target_time)}

\* PipelineDelay::get_delayed_value
get_delayed_value(delay, current_time) ==
    delayed_value_at(delay, RSub(current_time, delay.delay_time),
                     samples_at_or_after(delay.history, RSub(current_time, delay.delay_time)))

\* DelayManager::new
DelayManager_new == [exponential_delays |-> [k \in {} |-> ExponentialDelay_new(Zero, One, 1)],
                     pipeline_delays |-> [k \in {} |-> PipelineDelay_new(Zero, One)]]

\* DelayManager::get_or_create_exponential: entry(key).or_insert_with(..)
get_or_create_exponential(delays, key, initial_value, delay_time, order) ==
    IF key \in DOMAIN delays.exponential_delays THEN delays
    ELSE [delays EXCEPT !.exponential_delays =
            [k \in DOMAIN @ \cup {key} |->
                IF k = key THEN ExponentialDelay_new(initial_value, delay_time, order) ELSE @[k]]]

\* DelayManager::get_or_create_pipeline
get_or_create_pipeline(delays, key, initial_value, delay_time) ==
    IF key \in DOMAIN delays.pipeline_delays THEN delays
    ELSE [delays EXCEPT !.pipeline_delays =
            [k \in DOMAIN @ \cup {key} |->
                IF k = key THEN PipelineDelay_new(initial_value, delay_time) ELSE @[k]]]

\* DelayManager::update_all_exponential
update_all_exponential(delays, inputs, dt) ==
    [delays EXCEPT !.exponential_delays =
        [k \in DOMAIN @ |-> IF k \in DOMAIN inputs THEN ExponentialDelay_update(@[k], inputs[k], dt) ELSE @[k]]]

-----------------------------------------------------------------------------
(* Lookup tables (src/simulation/lookup.rs).  A table is its points, a      *)
(* sequence of [x, y].                                                      *)

\* LookupTable::new: at least one point, x non-decreasing
LookupTable_new(points) ==
    IF points = <<>> THEN [ok |-> FALSE, points |-> points, err |-> "Lookup table must have at least one point"]
    ELSE IF \E i \in 2..Len(points) : RLt(points[i].x, points[i - 1].x)
    THEN [ok |-> FALSE, points |-> points, err |-> "Lookup table points must be sorted by x value"]
    ELSE [ok |-> TRUE, points |-> points, err |-> ""]

\* "let alpha = (x - x1) / (x2 - x1); y1 + alpha * (y2 - y1)" between the
\* points i - 1 and i
interpolate_points(points, i, x) ==
    RAdd(points[i - 1].y,
         RMul(RDiv(RSub(x, points[i - 1].x), RSub(points[i].x, points[i - 1].x)),
              RSub(points[i].y, points[i - 1].y)))

\* lookup from the indices, after the first, of the points with x <= their x
lookup_among(points, x, upper) ==
    IF Len(points) = 0 THEN Zero
    ELSE IF RLe(x, points[1].x) THEN points[1].y
    ELSE IF RGe(x, points[Len(points)].x) THEN points[Len(points)].y
    ELSE IF upper # {} THEN interpolate_points(points, least(upper), x)
    ELSE points[Len(points)].y

\* LookupTable::lookup
lookup(points, x) == lookup_among(points, x, {i \in 2..Len(points) : RLe(x, points[i].x)})

-----------------------------------------------------------------------------
(* Expression evaluation (Expression::evaluate, evaluate_function,          *)
(* EvaluationContext).  context.state is mutable: the result carries it.    *)

Ok(val, st) == [ok |-> TRUE, val |-> val, st |-> st, err |-> ""]
Err(msg, st) == [ok |-> FALSE, val |-> Zero, st |-> st, err |-> msg]

\* str::to_uppercase on the identifiers the models use
to_uppercase(name) ==
    CASE name \in {"time", "Time", "TIME"} -> "TIME"
      [] name \in {"delay1", "Delay1"} -> "DELAY1"
      [] name \in {"smooth", "Smooth"} -> "SMOOTH"
      [] name \in {"pulse", "Pulse"} -> "PULSE"
      [] OTHER -> name

\* Model::get_variable: parameter, then stock, then flow, then auxiliary
Model_get_variable(m, name, st) ==
    IF name \in DOMAIN ParametersOf(m) THEN Ok(ParametersOf(m)[name], st)
    ELSE IF name \in DOMAIN st.stocks THEN Ok(st.stocks[name], st)
    ELSE IF name \in DOMAIN st.flows THEN Ok(st.flows[name], st)
    ELSE IF name \in DOMAIN st.auxiliaries THEN Ok(st.auxiliaries[name], st)
    ELSE Err("Variable not found", st)

\* EvaluationContext::get_variable
get_variable(name, m, st, time) ==
    IF to_uppercase(name) = "TIME" THEN Ok(time, st)
    ELSE Model_get_variable(m, name, st)

Bool(b) == IF b THEN One ELSE Zero

\* the match on op in Expression::evaluate, BinaryOp arm
apply_operator(op, left_val, right_val, st) ==
    CASE op = "Add" -> Ok(RAdd(left_val, right_val), st)
      [] op = "Subtract" -> Ok(RSub(left_val, right_val), st)
      [] op = "Multiply" -> Ok(RMul(left_val, right_val), st)
      [] op = "Divide" -> IF right_val.n = 0 THEN Err("Division by zero", st)
                          ELSE Ok(RDiv(left_val, right_val), st)
      [] op = "GreaterThan" -> Ok(Bool(RGt(left_val, right_val)), st)
      [] op = "LessThan" -> Ok(Bool(RLt(left_val, right_val)), st)
      [] op = "GreaterEqual" -> Ok(Bool(RGe(left_val, right_val)), st)
      [] op = "LessEqual" -> Ok(Bool(RLe(left_val, right_val)), st)
      [] op = "Equal" -> Ok(Bool(WithinTolerance(RSub(left_val, right_val))), st)
      [] op = "NotEqual" -> Ok(Bool(~WithinTolerance(RSub(left_val, right_val))), st)

\* f64 % f64 for a non-negative dividend and a positive divisor
RMod(a, b) == RSub(a, RMul(b, Rat(RFloor(RDiv(a, b)), 1)))

\* the PULSE arm with the upper end of the window closed
pulse_closed(arg_values, st, time) ==
    LET n == Len(arg_values) IN
    IF n < 2 \/ n > 3 THEN Err("PULSE expects 2 or 3 arguments", st)
    ELSE LET start == arg_values[1]
             width == arg_values[2]
         IN  IF n = 3
             THEN LET interval == arg_values[3] IN
                  IF RLe(interval, Zero) THEN Err("PULSE interval must be positive", st)
                  ELSE IF RLt(time, start) THEN Ok(Zero, st)
                  ELSE Ok(Bool(RLe(RMod(RSub(time, start), interval), width)), st)
             ELSE Ok(Bool(RGe(time, start) /\ RLe(time, RAdd(start, width))), st)

\* the PULSE arm: PULSE(start, width) or PULSE(start, width, repeat_interval)
pulse(arg_values, st, time) ==
    LET n == Len(arg_values) IN
    IF n < 2 \/ n > 3 THEN Err("PULSE expects 2 or 3 arguments", st)
    ELSE LET start == arg_values[1]
             width == arg_values[2]
         IN  IF n = 3
             THEN LET interval == arg_values[3] IN
                  IF RLe(interval, Zero) THEN Err("PULSE interval must be positive", st)
                  ELSE IF RLt(time, start) THEN Ok(Zero, st)
                  ELSE Ok(Bool(RLt(RMod(RSub(time, start), interval), width)), st)
             ELSE Ok(Bool(RGe(time, start) /\ RLt(time, RAdd(start, width))), st)

\* the points of WITH_LOOKUP(x, x1, y1, x2, y2, ...): "for i in (1..arg_values.len()).step_by(2)"
inline_points(arg_values) ==
    [i \in 1..((Len(arg_values) - 1) \div 2) |-> [x |-> arg_values[2 * i], y |-> arg_values[2 * i + 1]]]

\* the DELAY1 / SMOOTH / DELAY3 arms: the call site's instance is looked up
\* or created under its key, and its current value returned
exponential_call(key, arg_values, order, st) ==
    LET initial == IF Len(arg_values) = 3 THEN arg_values[3] ELSE arg_values[1]
        delays == get_or_create_exponential(st.delays, key, initial, arg_values[2], order)
    IN  Ok(delays.exponential_delays[key].value, [st EXCEPT !.delays = delays])

\* the DELAYP arm
pipeline_call(key, arg_values, st, time) ==
    LET delays == get_or_create_pipeline(st.delays, key, arg_values[3], arg_values[2])
    IN  Ok(get_delayed_value(delays.pipeline_delays[key], time), [st EXCEPT !.delays = delays])

\* the match on the upper-cased name in evaluate_function, on evaluated
\* arguments; raw_name and args are the call as written
call_function(name, raw_name, args, arg_values, st, time) ==
    LET n == Len(arg_values) IN
    CASE name = "MIN" ->
            IF n = 0 THEN Err("MIN requires at least 1 argument", st)
            ELSE Ok(CHOOSE v \in {arg_values[i] : i \in 1..n} : \A i \in 1..n : RLe(v, arg_values[i]), st)
      [] name = "MAX" ->
            IF n = 0 THEN Err("MAX requires at least 1 argument", st)
            ELSE Ok(CHOOSE v \in {arg_values[i] : i \in 1..n} : \A i \in 1..n : RGe(v, arg_values[i]), st)
      [] name = "ABS" ->
            IF n # 1 THEN Err("ABS expects 1 argument", st) ELSE Ok(RAbs(arg_values[1]), st)
      [] name = "PULSE" -> pulse(arg_values, st, time)
      [] name = "STEP" ->
            IF n # 2 THEN Err("STEP expects 2 arguments", st)
            ELSE Ok(IF RGe(time, arg_values[2]) THEN arg_values[1] ELSE Zero, st)
      [] name = "RAMP" ->
            IF n < 2 \/ n > 3 THEN Err("RAMP expects 2 or 3 arguments", st)
            ELSE LET slope == arg_values[1]
                     start_time == arg_values[2]
                 IN  IF RLt(time, start_time) THEN Ok(Zero, st)
                     ELSE IF n = 3 /\ RGe(time, arg_values[3])
                          THEN Ok(RMul(slope, RSub(arg_values[3], start_time)), st)
                          ELSE Ok(RMul(slope, RSub(time, start_time)), st)
      [] name = "TIME" ->
            IF n # 0 THEN Err("TIME expects 0 arguments", st) ELSE Ok(time, st)
      [] name \in {"DELAY1", "SMOOTH"} ->
            IF n < 2 \/ n > 3 THEN Err("DELAY1 expects 2 or 3 arguments", st)
            ELSE exponential_call(delay_key(raw_name, args), arg_values, 1, st)
      [] name = "DELAY3" ->
            IF n < 2 \/ n > 3 THEN Err("DELAY3 expects 2 or 3 arguments", st)
            ELSE exponential_call(delay_key("DELAY3", args), arg_values, 3, st)
      [] name = "DELAYP" ->
            IF n # 3 THEN Err("DELAYP expects 3 arguments", st)
            ELSE pipeline_call(delay_key("DELAYP", args), arg_values, st, time)
      [] name = "LOOKUP" ->
            IF n # 2 THEN Err("LOOKUP expects 2 arguments", st)
            ELSE Err("LOOKUP function requires direct lookup table reference - use WITH_LOOKUP instead", st)
      [] name = "WITH_LOOKUP" ->
            IF n < 3 \/ n % 2 # 1 THEN Err("WITH_LOOKUP expects odd number of arguments: x, x1, y1, x2, y2, ...", st)
            ELSE IF ~LookupTable_new(inline_points(arg_values)).ok THEN Err(LookupTable_new(inline_points(arg_values)).err, st)
            ELSE Ok(lookup(inline_points(arg_values), arg_values[1]), st)
      [] name = "RANDOM" ->
            IF n # 0 THEN Err("RANDOM expects 0 arguments", st)
            ELSE LET r == random(st.stochastic) IN Ok(r.val, [st EXCEPT !.stochastic = r.stochastic])
      [] OTHER -> Err("Unknown function", st)

RECURSIVE evaluate(_, _, _, _)
RECURSIVE evaluate_args(_, _, _, _, _, _)

\* args.iter().map(|arg| arg.evaluate(context)).collect(): left to right,
\* stopping at the first error
evaluate_args(args, i, acc, m, st, time) ==
    IF i > Len(args) THEN [ok |-> TRUE, vals |-> acc, st |-> st, err |-> ""]
    ELSE LET r == evaluate(args[i], m, st, time) IN
         IF ~r.ok THEN [ok |-> FALSE, vals |-> acc, st |-> r.st, err |-> r.err]
         ELSE evaluate_args(args, i + 1, Append(acc, r.val), m, r.st, time)

\* Expression::evaluate_function
evaluate_function(name, args, m, st, time) ==
    LET a == evaluate_args(args, 1, <<>>, m, st, time) IN
    IF ~a.ok THEN Err(a.err, a.st)
    ELSE call_function(to_uppercase(name), name, args, a.vals, a.st, time)

\* Expression::evaluate with both branches of a Conditional evaluated before
\* one is selected
evaluate_eager(e, m, st, time) ==
    CASE e.kind = "Constant" -> Ok(e.val, st)
      [] e.kind = "Variable" -> get_variable(e.name, m, st, time)
      [] e.kind = "BinaryOp" ->
            LET l == evaluate(e.left, m, st, time) IN
            IF ~l.ok THEN l
            ELSE LET r == evaluate(e.right, m, l.st, time) IN
                 IF ~r.ok THEN r ELSE apply_operator(e.op, l.val, r.val, r.st)
      [] e.kind = "UnaryOp" ->
            LET v == evaluate(e.expr, m, st, time) IN
            IF ~v.ok THEN v ELSE Ok(RNeg(v.val), v.st)
      [] e.kind = "FunctionCall" -> evaluate_function(e.name, e.args, m, st, time)
      [] e.kind = "Conditional" ->
            LET c == evaluate(e.condition, m, st, time) IN
            IF ~c.ok THEN c
            ELSE LET a == evaluate(e.true_expr, m, c.st, time) IN
                 IF ~a.ok THEN a
                 ELSE LET b == evaluate(e.false_expr, m, a.st, time) IN
                      IF ~b.ok THEN b
                      ELSE IF RGt(c.val, Rat(1, 2)) THEN Ok(a.val, b.st) ELSE b

\* Expression::evaluate
evaluate(e, m, st, time) ==
    CASE e.kind = "Constant" -> Ok(e.val, st)
      [] e.kind = "Variable" -> get_variable(e.name, m, st, time)
      [] e.kind = "BinaryOp" ->
            LET l == evaluate(e.left, m, st, time) IN
            IF ~l.ok THEN l
            ELSE LET r == evaluate(e.right, m, l.st, time) IN
                 IF ~r.ok THEN r ELSE apply_operator(e.op, l.val, r.val, r.st)
      [] e.kind = "UnaryOp" ->
            LET v == evaluate(e.expr, m, st, time) IN
            IF ~v.ok THEN v ELSE Ok(RNeg(v.val), v.st)
      [] e.kind = "FunctionCall" -> evaluate_function(e.name, e.args, m, st, time)
      [] e.kind = "Conditional" ->
            LET c == evaluate(e.condition, m, st, time) IN
            IF ~c.ok THEN c
            ELSE IF RGt(c.val, Rat(1, 2)) THEN evaluate(e.true_expr, m, c.st, time)
                 ELSE evaluate(e.false_expr, m, c.st, time)

-----------------------------------------------------------------------------
(* Expression::parse (src/model/expression.rs).  A text is a sequence of    *)
(* one-character strings; a position p of the code is position p + 1 here.  *)

Lower == <<"a", "b", "c", "d", "e", "f", "g", "h", "i", "j", "k", "l", "m", "n", "o", "p", "q", "r", "s", "t", "u", "v", "w", "x", "y", "z">>
Upper == <<"A", "B", "C", "D", "E", "F", "G", "H", "I", "J", "K", "L", "M", "N", "O", "P", "Q", "R", "S", "T", "U", "V", "W", "X", "Y", "Z">>

\* char::is_alphabetic
is_alphabetic(ch) == \E i \in 1..Len(Lower) : ch = Lower[i] \/ ch = Upper[i]

\* s.to_uppercase() on a text
text_to_uppercase(s) ==
    [i \in 1..Len(s) |-> IF \E k \in 1..Len(Lower) : s[i] = Lower[k] THEN Upper[CHOOSE k \in 1..Len(Lower) : s[i] = Lower[k]] ELSE s[i]]

\* s.trim()
trim(s) ==
    LET kept == {i \in 1..Len(s) : s[i] # " "}
    IN  IF kept = {} THEN <<>>
        ELSE SubSeq(s, CHOOSE i \in kept : \A j \in kept : i <= j, CHOOSE i \in kept : \A j \in kept : i >= j)

RECURSIVE to_string(_)
\* s.to_string(): the text as one string
to_string(s) == IF s = <<>> THEN "" ELSE s[1] \o to_string(Tail(s))

\* s.starts_with(prefix), s.ends_with(suffix)
starts_with(s, prefix) == Len(s) >= Len(prefix) /\ SubSeq(s, 1, Len(prefix)) = prefix
ends_with(s, suffix) == Len(s) >= Len(suffix) /\ SubSeq(s, Len(s) - Len(suffix) + 1, Len(s)) = suffix

\* s.find(pat): the first position where pat begins, 0 for None
find(s, pat) ==
    LET hits == {i \in 1..(Len(s) - Len(pat) + 1) : SubSeq(s, i, i + Len(pat) - 1) = pat}
    IN  IF hits = {} THEN 0 ELSE CHOOSE i \in hits : \A j \in hits : i <= j

RECURSIVE digits_value(_, _)
\* the number written by a text of decimal digits
digits_value(s, acc) ==
    IF s = <<>> THEN acc
    ELSE digits_value(Tail(s), 10 * acc + (CHOOSE d \in 0..9 : Digits[d + 1] = s[1]))

\* s.parse::<f64>() on the texts met here, which hold no '.', no exponent
\* and none of the words inf, infinity, nan: an optional sign and digits
parse_f64(s) ==
    LET body == IF s # <<>> /\ s[1] \in {"+", "-"} THEN Tail(s) ELSE s
    IN  IF body # <<>> /\ \A i \in 1..Len(body) : \E d \in 1..Len(Digits) : Digits[d] = body[i]
        THEN Some(Rat((IF s[1] = "-" THEN -1 ELSE 1) * digits_value(body, 0), 1))
        ELSE None

ParseOk(e) == [ok |-> TRUE, expr |-> e, err |-> ""]
ParseErr(msg) == [ok |-> FALSE, expr |-> Num(0), err |-> msg]

\* the depth counted by the scans of try_parse_binary and
\* try_parse_comparison when they reach s[i]
depth_at(s, i) == Cardinality({j \in 1..(i - 1) : s[j] = "("}) - Cardinality({j \in 1..(i - 1) : s[j] = ")"})

\* op_pos after the scan: the last depth-zero position holding one of ops,
\* 0 for None
last_at_depth_zero(s, ops) ==
    LET hits == {i \in 1..Len(s) : s[i] \in ops /\ depth_at(s, i) = 0}
    IN  IF hits = {} THEN 0 ELSE CHOOSE i \in hits : \A j \in hits : i >= j

\* the match on the operator character
operator_of(ch) ==
    CASE ch = "+" -> "Add"
      [] ch = "-" -> "Subtract"
      [] ch = "*" -> "Multiply"
      [] ch = "/" -> "Divide"
      [] ch = "^" -> "Power"
      [] ch = ">" -> "GreaterThan"
      [] ch = "<" -> "LessThan"

\* fn match_keyword_at
match_keyword_at(s, pos, keyword) ==
    /\ pos + Len(keyword) - 1 <= Len(s)
    /\ SubSeq(s, pos, pos + Len(keyword) - 1) = keyword
    /\ pos > 1 => ~is_alphabetic(s[pos - 1])
    /\ pos + Len(keyword) <= Len(s) => ~is_alphabetic(s[pos + Len(keyword)])

RECURSIVE find_if_then_else_scan(_, _, _, _)
\* the while loop of find_if_then_else_positions; then_pos 0 for None
find_if_then_else_scan(s_upper, i, depth, then_pos) ==
    IF i > Len(s_upper) THEN None
    ELSE IF match_keyword_at(s_upper, i, <<"I", "F">>) THEN find_if_then_else_scan(s_upper, i + 2, depth + 1, then_pos)
    ELSE IF match_keyword_at(s_upper, i, <<"T", "H", "E", "N">>)
    THEN IF depth = 1 /\ then_pos = 0 THEN find_if_then_else_scan(s_upper, i + 4, depth, i)
         ELSE IF depth > 1 THEN find_if_then_else_scan(s_upper, i + 4, depth - 1, then_pos)
         ELSE find_if_then_else_scan(s_upper, i + 4, depth, then_pos)
    ELSE IF match_keyword_at(s_upper, i, <<"E", "L", "S", "E">>)
    THEN IF depth = 1 /\ then_pos # 0 THEN Some(<<then_pos, i>>)
         ELSE IF depth > 1 THEN find_if_then_else_scan(s_upper, i + 4, depth - 1, then_pos)
         ELSE find_if_then_else_scan(s_upper, i + 4, depth, then_pos)
    ELSE find_if_then_else_scan(s_upper, i + 1, depth, then_pos)

\* fn find_if_then_else_positions
find_if_then_else_positions(s_upper) == find_if_then_else_scan(s_upper, 1, 0, 0)

RECURSIVE split_scan(_, _, _, _, _)
\* the loop of split_function_args and its last argument
split_scan(s, i, depth, current_arg, args) ==
    IF i > Len(s) THEN (IF trim(current_arg) # <<>> THEN Append(args, trim(current_arg)) ELSE args)
    ELSE IF s[i] = "(" THEN split_scan(s, i + 1, depth + 1, Append(current_arg, s[i]), args)
    ELSE IF s[i] = ")" THEN split_scan(s, i + 1, depth - 1, Append(current_arg, s[i]), args)
    ELSE IF s[i] = "," /\ depth = 0 THEN split_scan(s, i + 1, depth, <<>>, Append(args, trim(current_arg)))
    ELSE split_scan(s, i + 1, depth, Append(current_arg, s[i]), args)

\* fn split_function_args
split_function_args(s) == split_scan(s, 1, 0, <<>>, <<>>)

\* the (text, operator) pairs of two_char_ops, in the order tried
two_char_ops ==
    << [str |-> <<">", "=">>, op |-> "GreaterEqual"], [str |-> <<"<", "=">>, op |-> "LessEqual"],
       [str |-> <<"=", "=">>, op |-> "Equal"], [str |-> <<"!", "=">>, op |-> "NotEqual"] >>

RECURSIVE parse(_)
RECURSIVE parse_args(_, _, _)
RECURSIVE try_two_char_ops(_, _)

\* the BinaryOp of two parsed sides, None when a side is empty or fails
binary_of(op, left, right) ==
    IF left = <<>> \/ right = <<>> THEN None
    ELSE LET left_expr == parse(left) IN
         IF ~left_expr.ok THEN None
         ELSE LET right_expr == parse(right) IN
              IF ~right_expr.ok THEN None
              ELSE Some(BinaryOp(op, left_expr.expr, right_expr.expr))

\* fn try_parse_binary
try_parse_binary(s, ops) ==
    LET pos == last_at_depth_zero(s, ops)
    IN  IF pos = 0 THEN None
        ELSE binary_of(operator_of(s[pos]), trim(SubSeq(s, 1, pos - 1)), trim(SubSeq(s, pos + 1, Len(s))))

\* the loop over two_char_ops in try_parse_comparison: s.find(op_str)
try_two_char_ops(s, k) ==
    IF k > Len(two_char_ops) THEN None
    ELSE LET pos == find(s, two_char_ops[k].str) IN
         IF pos = 0 THEN try_two_char_ops(s, k + 1)
         ELSE LET split == binary_of(two_char_ops[k].op, trim(SubSeq(s, 1, pos - 1)), trim(SubSeq(s, pos + 2, Len(s)))) IN
              IF split.some THEN split ELSE try_two_char_ops(s, k + 1)

\* fn try_parse_comparison
try_parse_comparison(s) ==
    LET two == try_two_char_ops(s, 1) IN
    IF two.some THEN two ELSE try_parse_binary(s, {">", "<"})

\* fn try_parse_conditional: None, or Some of the Result
try_parse_conditional(s) ==
    IF ~starts_with(text_to_uppercase(s), <<"I", "F", " ">>) THEN None
    ELSE LET found == find_if_then_else_positions(text_to_uppercase(s)) IN
         IF ~found.some THEN None
         ELSE LET then_pos == found.v[1]
                  else_pos == found.v[2]
                  condition == parse(trim(SubSeq(s, 4, then_pos - 1)))
              IN  IF ~condition.ok THEN Some(condition)
                  ELSE LET true_expr == parse(trim(SubSeq(s, then_pos + 4, else_pos - 1))) IN
                       IF ~true_expr.ok THEN Some(true_expr)
                       ELSE LET false_expr == parse(trim(SubSeq(s, else_pos + 4, Len(s)))) IN
                            IF ~false_expr.ok THEN Some(false_expr)
                            ELSE Some(ParseOk(Conditional(condition.expr, true_expr.expr, false_expr.expr)))

\* arg_strings.iter().map(|arg| Self::parse(arg.trim())).collect()
parse_args(arg_strings, i, acc) ==
    IF i > Len(arg_strings) THEN [ok |-> TRUE, args |-> acc, err |-> ""]
    ELSE LET arg == parse(trim(arg_strings[i])) IN
         IF ~arg.ok THEN [ok |-> FALSE, args |-> acc, err |-> arg.err]
         ELSE parse_args(arg_strings, i + 1, Append(acc, arg.expr))

\* parse after the operators: parentheses, function call, unary minus,
\* subscripted variable, variable name
parse_operand(s) ==
    IF starts_with(s, <<"(">>) /\ ends_with(s, <<")">>) THEN parse(SubSeq(s, 2, Len(s) - 1))
    ELSE IF find(s, <<"(">>) > 1 /\ ends_with(s, <<")">>) /\ trim(SubSeq(s, 1, find(s, <<"(">>) - 1)) # <<>>
    THEN LET args == parse_args(split_function_args(SubSeq(s, find(s, <<"(">>) + 1, Len(s) - 1)), 1, <<>>) IN
         IF ~args.ok THEN ParseErr(args.err)
         ELSE ParseOk(FunctionCall(to_string(trim(SubSeq(s, 1, find(s, <<"(">>) - 1))), args.args))
    ELSE IF starts_with(s, <<"-">>)
    THEN LET inner == parse(Tail(s)) IN
         IF ~inner.ok THEN inner ELSE ParseOk(UnaryOp("Negate", inner.expr))
    ELSE IF find(s, <<"[">>) > 0 /\ ends_with(s, <<"]">>)
    THEN ParseOk([kind |-> "SubscriptedVariable",
                  name |-> to_string(trim(SubSeq(s, 1, find(s, <<"[">>) - 1))),
                  subscripts |-> split_function_args(SubSeq(s, find(s, <<"[">>) + 1, Len(s) - 1))])
    ELSE ParseOk(Variable(to_string(s)))

\* the cascade of parse on the trimmed text: number, conditional,
\* comparison, + -, * /, ^, then the operand forms
parse_trimmed(s) ==
    IF parse_f64(s).some THEN ParseOk(Constant(parse_f64(s).v))
    ELSE LET conditional == try_parse_conditional(s) IN
    IF conditional.some THEN conditional.v
    ELSE LET comparison == try_parse_comparison(s) IN
    IF comparison.some THEN ParseOk(comparison.v)
    ELSE LET additive == try_parse_binary(s, {"+", "-"}) IN
    IF additive.some THEN ParseOk(additive.v)
    ELSE LET multiplicative == try_parse_binary(s, {"*", "/"}) IN
    IF multiplicative.some THEN ParseOk(multiplicative.v)
    ELSE LET power == try_parse_binary(s, {"^"}) IN
    IF power.some THEN ParseOk(power.v)
    ELSE parse_operand(s)

\* Expression::parse
parse(s) == parse_trimmed(trim(s))

-----------------------------------------------------------------------------
(* SimulationState (src/simulation/mod.rs) and HashMap iteration.           *)

\* for (name, _) in &map: std HashMap visits the keys in an order fixed by
\* the map instance's hasher state, not by the keys.  An engine's model
\* instance has one of two orders: a fixed enumeration of the keys, or its
\* reverse.
RECURSIVE KeySeq(_)
KeySeq(S) == IF S = {} THEN <<>> ELSE <<CHOOSE x \in S : TRUE>> \o KeySeq(S \ {CHOOSE x \in S : TRUE})

Reverse(q) == [i \in 1..Len(q) |-> q[Len(q) + 1 - i]]

iter(map, order) == IF order = "fwd" THEN KeySeq(DOMAIN map) ELSE Reverse(KeySeq(DOMAIN map))

\* map.insert(key, value)
insert(map, key, value) == [k \in DOMAIN map \cup {key} |-> IF k = key THEN value ELSE map[k]]

\* SimulationState::new
new_state == [time |-> Zero, stocks |-> EmptyMap, flows |-> EmptyMap, auxiliaries |-> EmptyMap, stochastic |-> with_seed(0), delays |-> DelayManager_new]

\* the state's generator ("RNG state: a single seeded generator"), created
\* from the seed of the run
seed_stochastic(state, sd) == [state EXCEPT !.stochastic = with_seed(sd)]

RECURSIVE init_stocks(_, _, _, _)
\* the loop over model.stocks in initialize_from_model: each initial
\* expression is evaluated against the state built so far
init_stocks(m, names, i, state) ==
    IF i > Len(names) THEN [ok |-> TRUE, state |-> state]
    ELSE LET r == evaluate(StocksOf(m)[names[i]].initial, m, state, state.time) IN
         IF ~r.ok THEN [ok |-> FALSE, state |-> state]
         ELSE init_stocks(m, names, i + 1, [state EXCEPT !.stocks = insert(@, names[i], r.val)])

\* SimulationState::initialize_from_model
initialize_from_model(m, tc, sd, order) ==
    LET s0 == seed_stochastic([new_state EXCEPT !.time = tc.start], sd)
        s1 == init_stocks(m, iter(StocksOf(m), order), 1, s0)
    IN  IF ~s1.ok THEN s1
        ELSE [ok |-> TRUE,
              state |-> [s1.state EXCEPT !.flows = [k \in DOMAIN FlowsOf(m) |-> Zero],
                                         !.auxiliaries = [k \in DOMAIN AuxiliariesOf(m) |-> Zero]]]

-----------------------------------------------------------------------------
(* Step evaluator and integrators (src/simulation/integrator.rs).           *)

MAX_PASSES == 20
ERROR_PASS == 5

StepOk(state) == [ok |-> TRUE, state |-> state, err |-> ""]
StepErr(msg) == [ok |-> FALSE, state |-> new_state, err |-> msg]

RECURSIVE SumFlows(_, _, _)
\* the sum of flows[name] over a stock's inflow (outflow) list
SumFlows(names, i, flows) == IF i > Len(names) THEN Zero ELSE RAdd(flows[names[i]], SumFlows(names, i + 1, flows))

\* every name of the list is a key of the flow map
AllFound(names, flows) == \A i \in 1..Len(names) : names[i] \in DOMAIN flows

RECURSIVE SumFound(_, _, _)
\* the sum of the flows of a list that are in the flow map
SumFound(names, i, flows) ==
    IF i > Len(names) THEN Zero
    ELSE RAdd(IF names[i] \in DOMAIN flows THEN flows[names[i]] ELSE Zero, SumFound(names, i + 1, flows))

\* a variant of compute_derivatives that counts a flow that is not in the map as 0
compute_derivatives_lenient(m, flows) ==
    [ok |-> TRUE, err |-> "",
     d |-> [s \in DOMAIN StocksOf(m) |->
              RSub(SumFound(StocksOf(m)[s].inflows, 1, flows), SumFound(StocksOf(m)[s].outflows, 1, flows))]]

\* compute_derivatives, and the same loop inlined in EulerIntegrator::step:
\* inflows minus outflows per stock; a name that is not in the flow map is an error
compute_derivatives(m, flows) ==
    IF \E s \in DOMAIN StocksOf(m) : ~AllFound(StocksOf(m)[s].inflows, flows)
    THEN [ok |-> FALSE, d |-> EmptyMap, err |-> "Inflow not found"]
    ELSE IF \E s \in DOMAIN StocksOf(m) : ~AllFound(StocksOf(m)[s].outflows, flows)
    THEN [ok |-> FALSE, d |-> EmptyMap, err |-> "Outflow not found"]
    ELSE [ok |-> TRUE, err |-> "",
          d |-> [s \in DOMAIN StocksOf(m) |->
                   RSub(SumFlows(StocksOf(m)[s].inflows, 1, flows), SumFlows(StocksOf(m)[s].outflows, 1, flows))]]

\* "Enforce non-negative and max_value constraints if specified"
constrain(m, stock_name, new_value) ==
    IF stock_name \in DOMAIN StocksOf(m)
    THEN LET stock == StocksOf(m)[stock_name]
             v1 == IF stock.non_negative THEN RMax(new_value, Zero) ELSE new_value
         IN  IF stock.max_value.some THEN RMin(v1, stock.max_value.v) ELSE v1
    ELSE new_value

RECURSIVE eval_flows(_, _, _, _, _, _, _)
\* the body of "for (name, flow) in &model.flows" once the equation has
\* been evaluated to r: an error ends the step; with merge the clone's
\* generator is copied back (Euler), without it is dropped
eval_flows_insert(r, m, names, i, trial, time, new_flows, merge) ==
    IF ~r.ok THEN [ok |-> FALSE, flows |-> new_flows, trial |-> trial, err |-> r.err]
    ELSE eval_flows(m, names, i + 1,
                    IF merge THEN [trial EXCEPT !.stochastic = r.st.stochastic, !.delays = r.st.delays] ELSE trial,
                    time, insert(new_flows, names[i], r.val), merge)

\* "Evaluate flows": each flow is evaluated on a clone of the trial state
eval_flows(m, names, i, trial, time, new_flows, merge) ==
    IF i > Len(names) THEN [ok |-> TRUE, flows |-> new_flows, trial |-> trial, err |-> ""]
    ELSE eval_flows_insert(evaluate(FlowsOf(m)[names[i]], m, trial, time), m, names, i, trial, time, new_flows, merge)

RECURSIVE aux_pass(_, _, _, _, _, _, _, _, _, _)
\* a variant of the body in which an error is never fatal
aux_pass_insert_lenient(r, m, names, i, trial, time, auxs, changed, any_errors, pass, merge) ==
    IF r.ok
    THEN aux_pass(m, names, i + 1,
                  IF merge THEN [trial EXCEPT !.stochastic = r.st.stochastic, !.delays = r.st.delays] ELSE trial,
                  time, insert(auxs, names[i], r.val),
                  changed \/ (IF names[i] \in DOMAIN auxs THEN ExceedsTolerance(RSub(r.val, auxs[names[i]])) ELSE TRUE),
                  any_errors, pass, merge)
    ELSE aux_pass(m, names, i + 1, trial, time, auxs, changed, TRUE, pass, merge)

\* the body of "for (name, aux) in &model.auxiliaries" once the equation
\* has been evaluated to r: a value is stored and compared with the
\* previous one; an error is fatal from pass ERROR_PASS on
aux_pass_insert(r, m, names, i, trial, time, auxs, changed, any_errors, pass, merge) ==
    IF r.ok
    THEN aux_pass(m, names, i + 1,
                  IF merge THEN [trial EXCEPT !.stochastic = r.st.stochastic, !.delays = r.st.delays] ELSE trial,
                  time, insert(auxs, names[i], r.val),
                  changed \/ (IF names[i] \in DOMAIN auxs THEN ExceedsTolerance(RSub(r.val, auxs[names[i]])) ELSE TRUE),
                  any_errors, pass, merge)
    ELSE IF pass >= ERROR_PASS
         THEN [fatal |-> TRUE, auxs |-> auxs, trial |-> trial, changed |-> changed, any_errors |-> TRUE, err |-> r.err]
         ELSE aux_pass(m, names, i + 1, trial, time, auxs, changed, TRUE, pass, merge)

\* one pass of "for (name, aux) in &model.auxiliaries": every equation is
\* evaluated on a clone of the trial state, whose auxiliary map is the one
\* of the previous pass
aux_pass(m, names, i, trial, time, auxs, changed, any_errors, pass, merge) ==
    IF i > Len(names)
    THEN [fatal |-> FALSE, auxs |-> auxs, trial |-> trial, changed |-> changed, any_errors |-> any_errors, err |-> ""]
    ELSE aux_pass_insert(evaluate(AuxiliariesOf(m)[names[i]], m, trial, time), m, names, i, trial, time, auxs, changed, any_errors, pass, merge)

\* a variant of the end of a pass that may break after pass 0
pass_end_from_first(p, pass) ==
    IF p.fatal THEN "return"
    ELSE IF ~p.changed /\ ~p.any_errors THEN "break"
    ELSE "continue"

\* how a pass p ends: the return of the error, or
\* "if !changed && !any_errors && pass > 0 { break; }"
pass_end(p, pass) ==
    IF p.fatal THEN "return"
    ELSE IF ~p.changed /\ ~p.any_errors /\ pass > 0 THEN "break"
    ELSE "continue"

RECURSIVE aux_passes(_, _, _, _, _, _, _)
\* the end of one pass p of the loop
aux_passes_check(p, m, names, time, pass, merge) ==
    IF pass_end(p, pass) = "return" THEN [ok |-> FALSE, auxs |-> p.auxs, trial |-> p.trial, passes |-> pass + 1, err |-> p.err]
    ELSE IF pass_end(p, pass) = "break"
         THEN [ok |-> TRUE, auxs |-> p.auxs, trial |-> [p.trial EXCEPT !.auxiliaries = p.auxs], passes |-> pass + 1, err |-> ""]
         ELSE aux_passes(m, names, [p.trial EXCEPT !.auxiliaries = p.auxs], time, p.auxs, pass + 1, merge)

\* "for pass in 0..MAX_PASSES": the fixed-point iteration over the auxiliaries
aux_passes(m, names, trial, time, auxs, pass, merge) ==
    IF pass >= MAX_PASSES THEN [ok |-> TRUE, auxs |-> auxs, trial |-> trial, passes |-> pass, err |-> ""]
    ELSE aux_passes_check(aux_pass(m, names, 1, trial, time, auxs, FALSE, FALSE, pass, merge), m, names, time, pass, merge)

\* EulerIntegrator::step, "Update exponential delays" and "Update pipeline
\* delays": every exponential delay is updated with its own current value as
\* the input, every pipeline delay is pushed (new_state.time, 0.0)
euler_update_delays(new, dt) ==
    [new EXCEPT !.delays =
        [exponential_delays |->
            update_all_exponential(new.delays,
                [k \in DOMAIN new.delays.exponential_delays |-> new.delays.exponential_delays[k].value],
                dt).exponential_delays,
         pipeline_delays |->
            [k \in DOMAIN new.delays.pipeline_delays |-> push(new.delays.pipeline_delays[k], new.time, Zero)]]]

\* a variant of the stock update that subtracts the net flow
euler_update_stocks_reversed(m, state, dt, trial, k) ==
    IF ~k.ok THEN StepErr(k.err)
    ELSE StepOk(euler_update_delays(
                [trial EXCEPT !.stocks =
                   [s \in DOMAIN state.stocks |->
                      IF s \in DOMAIN k.d
                      THEN constrain(m, s, RSub(state.stocks[s], RMul(k.d[s], dt)))
                      ELSE state.stocks[s]]], dt))

\* EulerIntegrator::step, "Update stocks": new = current + dt * (inflows - outflows), then the constraints
euler_update_stocks(m, state, dt, trial, k) ==
    IF ~k.ok THEN StepErr(k.err)
    ELSE StepOk(euler_update_delays(
                [trial EXCEPT !.stocks =
                   [s \in DOMAIN state.stocks |->
                      IF s \in DOMAIN k.d
                      THEN constrain(m, s, RAdd(state.stocks[s], RMul(k.d[s], dt)))
                      ELSE state.stocks[s]]], dt))

\* EulerIntegrator::step, "Compute stock derivatives", from the flows f
euler_derivatives(m, state, dt, f) ==
    IF ~f.ok THEN StepErr(f.err)
    ELSE euler_update_stocks(m, state, dt, [f.trial EXCEPT !.flows = f.flows], compute_derivatives(m, f.flows))

\* EulerIntegrator::step, "Evaluate flows", from the auxiliaries a
euler_flows(m, state, dt, order, a) ==
    IF ~a.ok THEN StepErr(a.err)
    ELSE euler_derivatives(m, state, dt,
            eval_flows(m, iter(FlowsOf(m), order), 1, [a.trial EXCEPT !.auxiliaries = a.auxs], state.time, EmptyMap, TRUE))

\* EulerIntegrator::step
EulerIntegrator_step(m, state, dt, order) ==
    euler_flows(m, state, dt, order,
        aux_passes(m, iter(AuxiliariesOf(m), order), [state EXCEPT !.time = RAdd(@, dt)], state.time, EmptyMap, 0, TRUE))

\* a variant of evaluate_system that returns the flows without the auxiliaries
system_flows_only(a, f) ==
    IF ~f.ok THEN [ok |-> FALSE, auxiliaries |-> EmptyMap, flows |-> EmptyMap, err |-> f.err]
    ELSE [ok |-> TRUE, auxiliaries |-> EmptyMap, flows |-> f.flows, err |-> ""]

\* evaluate_system, "Evaluate flows", from the auxiliaries a
system_flows(a, f) ==
    IF ~f.ok THEN [ok |-> FALSE, auxiliaries |-> a.auxs, flows |-> EmptyMap, err |-> f.err]
    ELSE [ok |-> TRUE, auxiliaries |-> a.auxs, flows |-> f.flows, err |-> ""]

\* evaluate_system, from the fixed point a over the auxiliaries
system_auxiliaries(m, state, time, order, a) ==
    IF ~a.ok THEN [ok |-> FALSE, auxiliaries |-> a.auxs, flows |-> EmptyMap, err |-> a.err]
    ELSE system_flows(a, eval_flows(m, iter(FlowsOf(m), order), 1, [state EXCEPT !.auxiliaries = a.auxs], time, EmptyMap, FALSE))

\* a variant of evaluate_system that evaluates at the time of the state
evaluate_system_at_start(m, state, time, order) ==
    system_auxiliaries(m, state, state.time, order,
        aux_passes(m, iter(AuxiliariesOf(m), order), state, state.time, state.auxiliaries, 0, FALSE))

\* RK4Integrator::evaluate_system (HeunIntegrator, BackwardEulerIntegrator and
\* RK45Integrator hold the same text): the fixed point over the auxiliaries
\* seeded with state.auxiliaries, then the flows; every evaluation runs on
\* a clone that is dropped
evaluate_system(m, state, time, order) ==
    system_auxiliaries(m, state, time, order,
        aux_passes(m, iter(AuxiliariesOf(m), order), state, time, state.auxiliaries, 0, FALSE))

\* compute_derivatives(model, &flows)? on the result e of evaluate_system(..)?
stage_derivatives(m, e) ==
    LET k == compute_derivatives(m, e.flows)
    IN  IF ~e.ok THEN [ok |-> FALSE, auxiliaries |-> e.auxiliaries, flows |-> e.flows, k |-> EmptyMap, err |-> e.err]
        ELSE IF ~k.ok THEN [ok |-> FALSE, auxiliaries |-> e.auxiliaries, flows |-> e.flows, k |-> EmptyMap, err |-> k.err]
        ELSE [ok |-> TRUE, auxiliaries |-> e.auxiliaries, flows |-> e.flows, k |-> k.d, err |-> ""]

\* evaluate_system(..)? followed by compute_derivatives(..)?: one stage
stage(m, state, time, order) == stage_derivatives(m, evaluate_system(m, state, time, order))

\* apply_stock_increments
apply_stock_increments(base_state, increments) ==
    [base_state EXCEPT !.stocks =
        [s \in DOMAIN base_state.stocks |->
            IF s \in DOMAIN increments THEN RAdd(base_state.stocks[s], increments[s]) ELSE base_state.stocks[s]]]

\* k.get(name).unwrap_or(&0.0)
unwrap_or_zero(k, name) == IF name \in DOMAIN k THEN k[name] ELSE Zero

\* k.iter().map(|(name, &deriv)| (name.clone(), deriv * factor)).collect()
scaled(k, factor) == [s \in DOMAIN k |-> RMul(k[s], factor)]

\* HeunIntegrator::step, "Average the slopes and update": y + (k1 + k2) * dt / 2, then the constraints
heun_update(m, state, dt, s1, s2) ==
    IF ~s2.ok THEN StepErr(s2.err)
    ELSE StepOk([state EXCEPT
            !.time = RAdd(@, dt),
            !.stocks = [s \in DOMAIN state.stocks |->
                constrain(m, s, RAdd(state.stocks[s],
                    RMul(RAdd(unwrap_or_zero(s1.k, s), unwrap_or_zero(s2.k, s)), RMul(dt, Rat(1, 2)))))],
            !.auxiliaries = s2.auxiliaries,
            !.flows = s2.flows])

\* HeunIntegrator::step, "Corrector step", from the predictor stage s1
heun_corrector(m, state, dt, order, s1) ==
    IF ~s1.ok THEN StepErr(s1.err)
    ELSE heun_update(m, state, dt, s1,
            stage(m, apply_stock_increments(state, scaled(s1.k, dt)), RAdd(state.time, dt), order))

\* HeunIntegrator::step
HeunIntegrator_step(m, state, dt, order) == heun_corrector(m, state, dt, order, stage(m, state, state.time, order))

\* RK4Integrator::step, "Combine": y + (k1 + 2 k2 + 2 k3 + k4) * dt / 6, then the constraints
rk4_update(m, state, dt, s1, s2, s3, s4) ==
    IF ~s4.ok THEN StepErr(s4.err)
    ELSE StepOk([state EXCEPT
            !.time = RAdd(@, dt),
            !.stocks = [s \in DOMAIN state.stocks |->
                constrain(m, s, RAdd(state.stocks[s],
                    RMul(RAdd(RAdd(unwrap_or_zero(s1.k, s), RMul(Rat(2, 1), unwrap_or_zero(s2.k, s))),
                              RAdd(RMul(Rat(2, 1), unwrap_or_zero(s3.k, s)), unwrap_or_zero(s4.k, s))),
                         RMul(dt, Rat(1, 6)))))],
            !.auxiliaries = s4.auxiliaries,
            !.flows = s4.flows])

\* RK4Integrator::step, k4 = f(t + dt, y + dt * k3)
rk4_stage4(m, state, dt, order, s1, s2, s3) ==
    IF ~s3.ok THEN StepErr(s3.err)
    ELSE rk4_update(m, state, dt, s1, s2, s3,
            stage(m, apply_stock_increments(state, scaled(s3.k, dt)), RAdd(state.time, dt), order))

\* RK4Integrator::step, k3 = f(t + dt/2, y + dt/2 * k2)
rk4_stage3(m, state, dt, order, s1, s2) ==
    IF ~s2.ok THEN StepErr(s2.err)
    ELSE rk4_stage4(m, state, dt, order, s1, s2,
            stage(m, apply_stock_increments(state, scaled(s2.k, RMul(dt, Rat(1, 2)))), RAdd(state.time, RMul(dt, Rat(1, 2))), order))

\* RK4Integrator::step, k2 = f(t + dt/2, y + dt/2 * k1)
rk4_stage2(m, state, dt, order, s1) ==
    IF ~s1.ok THEN StepErr(s1.err)
    ELSE rk4_stage3(m, state, dt, order, s1,
            stage(m, apply_stock_increments(state, scaled(s1.k, RMul(dt, Rat(1, 2)))), RAdd(state.time, RMul(dt, Rat(1, 2))), order))

\* RK4Integrator::step
RK4Integrator_step(m, state, dt, order) == rk4_stage2(m, state, dt, order, stage(m, state, state.time, order))

\* BackwardEulerIntegrator::default
MAX_ITERATIONS == 20
TOLERANCE_INV == 1000000

\* max_change < self.tolerance, for max_change >= 0 and tolerance 1e-6
below_tolerance(x) == x.n = 0 \/ (x.n <= 2147 /\ x.n * TOLERANCE_INV < x.d)

RECURSIVE MaxOver(_, _, _)
\* max_change.max(change) folded over the stocks
MaxOver(names, i, f) == IF i > Len(names) THEN Zero ELSE RMax(f[names[i]], MaxOver(names, i + 1, f))

RECURSIVE backward_iterate(_, _, _, _, _, _)
\* one pass of the fixed-point iteration, from the stage e at the current
\* estimate: "y_new = y_old + f(t_next, y_current) * dt", the constraints,
\* the convergence test
backward_estimate(m, state, dt, order, current_state, iteration, e) ==
    LET touched == {s \in DOMAIN state.stocks : s \in DOMAIN e.k}
        new_value == [s \in touched |-> constrain(m, s, RAdd(state.stocks[s], RMul(e.k[s], dt)))]
        change == [s \in touched |->
                     IF s \in DOMAIN current_state.stocks
                     THEN RAbs(RSub(new_value[s], current_state.stocks[s])) ELSE Zero]
        next_state == [current_state EXCEPT
                         !.stocks = [s \in DOMAIN current_state.stocks \cup touched |->
                                       IF s \in touched THEN new_value[s] ELSE current_state.stocks[s]],
                         !.auxiliaries = e.auxiliaries,
                         !.flows = e.flows]
    IN  IF ~e.ok THEN StepErr(e.err)
        ELSE IF below_tolerance(MaxOver(KeySeq(touched), 1, change)) /\ iteration > 0 THEN StepOk(next_state)
        ELSE backward_iterate(m, state, dt, order, next_state, iteration + 1)

\* "for iteration in 0..self.max_iterations" of BackwardEulerIntegrator::step
backward_iterate(m, state, dt, order, current_state, iteration) ==
    IF iteration >= MAX_ITERATIONS THEN StepOk(current_state)
    ELSE backward_estimate(m, state, dt, order, current_state, iteration,
            stage(m, current_state, RAdd(state.time, dt), order))

\* BackwardEulerIntegrator::step, "Apply initial Euler step as starting guess", from the stage e0
backward_guess(m, state, dt, order, e0) ==
    IF ~e0.ok THEN StepErr(e0.err)
    ELSE backward_iterate(m, state, dt, order,
            [state EXCEPT
               !.time = RAdd(state.time, dt),
               !.stocks = [s \in DOMAIN state.stocks |->
                             IF s \in DOMAIN e0.k THEN RAdd(state.stocks[s], RMul(e0.k[s], dt))
                             ELSE state.stocks[s]]],
            0)

\* BackwardEulerIntegrator::step
BackwardEulerIntegrator_step(m, state, dt, order) == backward_guess(m, state, dt, order, stage(m, state, state.time, order))

-----------------------------------------------------------------------------
(* RK45Integrator (Dormand-Prince, adaptive).                               *)

MAX_ATTEMPTS == 10

\* RK45Integrator::default.  min_step is 1e-10 and max_step 1.0 in the
\* source; the ratio does not fit a 32-bit integer, so min_step is placed at
\* 1/MinStepScale.  Only the order between dt, h, min_step and max_step
\* enters the step-size logic.
MinStepScale == 8
min_step == Rat(1, MinStepScale)
max_step == One
safety_factor == Rat(9, 10)

\* the error profiles of a model's dynamics: which step sizes the embedded
\* error estimate rejects, and by how much
ErrProfiles == {"smooth", "coarse", "stiff", "fine"}

\* the first half of compute_error_and_step: max over the stocks of
\* |y5 - y4| / (atol + rtol * max(|y4|, |y5|)).  The quotient against
\* atol = 1e-8 and its fifth root are outside integer arithmetic; the model
\* takes the value from the error profile, as a function of the attempted
\* step size h, among values with a rational fifth root.  With constant
\* flows y5 = y4, which is the profile "smooth".
normalized_error(profile, h) ==
    CASE profile = "smooth" -> 0
      [] profile = "coarse" -> IF RGt(h, Rat(1, 2)) THEN 32 ELSE 1
      [] profile = "stiff" -> 100000
      [] profile = "fine" -> IF RLt(h, min_step) THEN 32 ELSE 0

\* (1.0 / max_error).powf(0.2)
inv_fifth_root(max_error) ==
    CASE max_error = 1 -> One
      [] max_error = 32 -> Rat(1, 2)
      [] max_error = 100000 -> Rat(1, 10)

\* the second half of compute_error_and_step: the new step size, clamped
compute_error_and_step(max_error, current_step) ==
    LET new_step == IF max_error > 0
                    THEN RMul(RMul(safety_factor, current_step), inv_fifth_root(max_error))
                    ELSE RMul(current_step, Rat(2, 1))
    IN  [error |-> max_error, new_step |-> RMin(RMax(new_step, min_step), max_step)]

\* the Dormand-Prince tableau: a21 .. a76 by stage (a72 is absent from the
\* source, which is a coefficient of 0), and the stage times
DOPRI5_a ==
    << <<>>,
       <<Rat(1, 5)>>,
       <<Rat(3, 40), Rat(9, 40)>>,
       <<Rat(44, 45), Rat(-56, 15), Rat(32, 9)>>,
       <<Rat(19372, 6561), Rat(-25360, 2187), Rat(64448, 6561), Rat(-212, 729)>>,
       <<Rat(9017, 3168), Rat(-355, 33), Rat(46732, 5247), Rat(49, 176), Rat(-5103, 18656)>>,
       <<Rat(35, 384), Zero, Rat(500, 1113), Rat(125, 192), Rat(-2187, 6784), Rat(11, 84)>> >>

DOPRI5_c == <<Zero, Rat(1, 5), Rat(3, 10), Rat(4, 5), Rat(8, 9), One, One>>

\* the 5th order weights b1 .. b6 (b2 is absent from the source)
DOPRI5_b == <<Rat(35, 384), Zero, Rat(500, 1113), Rat(125, 192), Rat(-2187, 6784), Rat(11, 84)>>

RECURSIVE weighted(_, _, _, _)
\* a_1 * d1 + a_2 * d2 + ..., each d by k.get(name).unwrap_or(&0.0)
weighted(ss, coeffs, name, i) ==
    IF i > Len(coeffs) THEN Zero
    ELSE RAdd(RMul(coeffs[i], unwrap_or_zero(ss[i].k, name)), weighted(ss, coeffs, name, i + 1))

\* inc2 .. inc7 and the y5 increment: (a_1 * d1 + a_2 * d2 + ...) * h per name
combine(ss, coeffs, h, names) == [name \in names |-> RMul(weighted(ss, coeffs, name, 1), h)]

RECURSIVE rk45_stages(_, _, _, _, _)
\* the "?" after a stage s: an error ends the step
rk45_stage_done(s, m, state, order, h, ss) ==
    IF ~s.ok THEN [ok |-> FALSE, ss |-> ss, err |-> s.err]
    ELSE rk45_stages(m, state, order, h, Append(ss, s))

\* "Stage 1" .. "Stage 7" of an attempt with step size h
rk45_stages(m, state, order, h, ss) ==
    IF Len(ss) = Len(DOPRI5_c) THEN [ok |-> TRUE, ss |-> ss, err |-> ""]
    ELSE rk45_stage_done(
            stage(m,
                  IF ss = <<>> THEN state
                  ELSE apply_stock_increments(state, combine(ss, DOPRI5_a[Len(ss) + 1], h, DOMAIN ss[1].k)),
                  RAdd(state.time, RMul(DOPRI5_c[Len(ss) + 1], h)), order),
            m, state, order, h, ss)

RECURSIVE rk45_attempt(_, _, _, _, _, _)
\* "Check error and adjust step size", on the stages r of an attempt:
\* accept with the 5th order solution, or retry with the new step size
rk45_check(m, state, order, profile, h, attempt, r) ==
    LET es == compute_error_and_step(normalized_error(profile, h), h)
        y5inc == combine(r.ss, DOPRI5_b, h, DOMAIN state.stocks)
    IN  IF ~r.ok THEN StepErr(r.err)
        ELSE IF es.error <= 1
        THEN StepOk([state EXCEPT
                !.time = RAdd(state.time, h),
                !.stocks = [s \in DOMAIN state.stocks |-> constrain(m, s, RAdd(state.stocks[s], y5inc[s]))],
                !.auxiliaries = r.ss[7].auxiliaries,
                !.flows = r.ss[7].flows])
        ELSE IF RLt(es.new_step, min_step) THEN StepErr("Step size below minimum")
        ELSE rk45_attempt(m, state, order, profile, es.new_step, attempt + 1)

\* "for _attempt in 0..MAX_ATTEMPTS" of RK45Integrator::step
rk45_attempt(m, state, order, profile, h, attempt) ==
    IF attempt >= MAX_ATTEMPTS THEN StepErr("RK45 failed to converge after maximum attempts")
    ELSE rk45_check(m, state, order, profile, h, attempt, rk45_stages(m, state, order, h, <<>>))

\* RK45Integrator::step: "let mut h = dt.min(self.max_step)"
RK45Integrator_step(m, state, dt, order, profile) == rk45_attempt(m, state, order, profile, RMin(dt, max_step), 0)

-----------------------------------------------------------------------------
(* SimulationEngine (src/simulation/engine.rs).                             *)

Methods == {"Euler", "Heun", "RK4", "BackwardEuler", "RK45"}

\* "let integrator: Box<dyn Integrator> = match self.config.integration_method"
\* followed by integrator.step(&self.model, &self.state, dt)
integrator_step(method, m, state, dt, order, profile) ==
    CASE method = "Euler" -> EulerIntegrator_step(m, state, dt, order)
      [] method = "RK4" -> RK4Integrator_step(m, state, dt, order)
      [] method = "RK45" -> RK45Integrator_step(m, state, dt, order, profile)
      [] method = "Heun" -> HeunIntegrator_step(m, state, dt, order)
      [] method = "BackwardEuler" -> BackwardEulerIntegrator_step(m, state, dt, order)

\* a variant of the run loop without the clamp
clamp_time_absent(state, stop_time) == state

\* "Ensure we don't overshoot"
clamp_time(state, stop_time) == IF RGt(state.time, stop_time) THEN [state EXCEPT !.time = stop_time] ELSE state

\* "Record state based on output interval"
should_record(output_interval, time, dt) ==
    IF output_interval.some
    THEN LET current_interval == RFloor(RDiv(time, output_interval.v))
             prev_interval == RFloor(RDiv(RSub(time, dt), output_interval.v))
         IN  current_interval > prev_interval
    ELSE TRUE

\* SimulationResults::add_point
add_point(results, time, state) == Append(results, [time |-> time, state |-> state])

\* model.time
TimeConfig(start, stop, dt) == [start |-> start, stop |-> stop, dt |-> dt]

\* SimulationConfig
SimulationConfig(integration_method, output_interval) == [integration_method |-> integration_method, output_interval |-> output_interval]

\* StochasticManager seeds
MaxSeed == 1

\* Only the Dice model draws random numbers.
SeedsOf(m) == IF m = "Dice" THEN 0..MaxSeed ELSE {0}

\* Every model under every integrator it can be computed with, recording every step.
IntegratorScenarios ==
    {sc \in {[model |-> m, time_config |-> tc, config |-> SimulationConfig(im, None), seed |-> sd, err_profile |-> "smooth"] :
                m \in ModelNames \ ({"Growth", "Pulse"} \cup DelayModels), tc \in {TimeConfig(Zero, Rat(2, 1), One)}, im \in Methods,
                sd \in 0..MaxSeed} :
        sc.seed \in SeedsOf(sc.model)}

\* The models of the engine's tests and of the PULSE example, under Euler.
\* Their stocks leave 32-bit rationals under the higher-order integrators.
ExampleScenarios ==
    {[model |-> m, time_config |-> tc, config |-> SimulationConfig("Euler", None), seed |-> 0, err_profile |-> "smooth"] :
        m \in {"Growth"}, tc \in {TimeConfig(Zero, One, One), TimeConfig(Zero, Rat(2, 1), One)}}
    \cup {[model |-> "Pulse", time_config |-> TimeConfig(Zero, Rat(10, 1), One), config |-> SimulationConfig("Euler", None), seed |-> 0, err_profile |-> "smooth"]}

\* Time configurations and output intervals, on a model with one stock.
RecordingScenarios ==
    {[model |-> "Tank", time_config |-> tc, config |-> SimulationConfig(im, oi), seed |-> 0, err_profile |-> "smooth"] :
        tc \in {TimeConfig(Zero, Rat(2, 1), One), TimeConfig(Zero, Rat(3, 1), Rat(2, 1)),
                TimeConfig(One, One, One), TimeConfig(Zero, Rat(4, 1), Rat(2, 1))},
        im \in {"Euler", "RK45"},
        oi \in {None, Some(One), Some(Rat(2, 1)), Some(Rat(4, 1))}}

\* RK45 step-size control under each error profile, for dt above and below min_step.
AdaptiveScenarios ==
    {[model |-> "Tank", time_config |-> tc, config |-> SimulationConfig("RK45", None), seed |-> 0, err_profile |-> ep] :
        tc \in {TimeConfig(Zero, Rat(2, 1), One), TimeConfig(Zero, Rat(1, 8), Rat(1, 16))},
        ep \in ErrProfiles}

\* The models with delay call sites, under every integrator, for four steps.
DelayScenarios ==
    {[model |-> m, time_config |-> TimeConfig(Zero, Rat(4, 1), One), config |-> SimulationConfig(im, None), seed |-> 0, err_profile |-> "smooth"] :
        m \in DelayModels, im \in Methods}

\* A stop time that is not a whole number of steps after the start, under the fixed-step integrators.
OvershootScenarios ==
    {[model |-> m, time_config |-> TimeConfig(Zero, Rat(3, 2), One), config |-> SimulationConfig(im, None), seed |-> 0, err_profile |-> "smooth"] :
        m \in {"Chain", "Clock"}, im \in Methods \ {"RK45"}}

Scenarios == IntegratorScenarios \cup ExampleScenarios \cup RecordingScenarios \cup AdaptiveScenarios \cup DelayScenarios \cup OvershootScenarios

\* the scenarios in which two engines are built from the same model, configuration and seed
PairScenarios ==
    {sc \in IntegratorScenarios : sc.model \in {"Tank", "Dice"}}
    \cup {sc \in ExampleScenarios : sc.model = "Growth"}
    \cup {sc \in RecordingScenarios : sc.time_config = TimeConfig(Zero, Rat(4, 1), Rat(2, 1)) /\ sc.config.output_interval = None}

\* HashMap iteration orders that differ for the model's maps
OrdersOf(m) == IF \E map \in {StocksOf(m), FlowsOf(m), AuxiliariesOf(m)} : Cardinality(DOMAIN map) > 1 THEN {"fwd", "rev"} ELSE {"fwd"}

\* SimulationEngine::new, with the bookkeeping of the calls made on the
\* engine: pc is the position inside run(), results the Results under
\* construction, ret / err / returned the outcome of the last call, nsteps
\* and nruns the calls made, nok the integrator steps that succeeded, niter
\* the iterations of the current run(), before / after the argument and the
\* value of the last successful integrator step, entered the state in which
\* the last run() was called
SimulationEngine_new(m, tc, sd, order) ==
    [state |-> initialize_from_model(m, tc, sd, order).state,
     order |-> order,
     pc |-> "idle",
     results |-> <<>>,
     ret |-> "none",
     err |-> "",
     returned |-> <<>>,
     fresh |-> FALSE,
     nsteps |-> 0,
     nok |-> 0,
     nruns |-> 0,
     niter |-> 0,
     before |-> initialize_from_model(m, tc, sd, order).state,
     after |-> initialize_from_model(m, tc, sd, order).state,
     entered |-> initialize_from_model(m, tc, sd, order).state,
     iter_recorded |-> FALSE]

\* the number of step() calls a client makes on an engine beyond (stop - start) / dt
ExtraSteps == 1
StepBudget == RFloor(RDiv(RSub(time_config.stop, time_config.start), time_config.dt)) + ExtraSteps

\* the number of run() calls a client makes on an engine
MaxRuns == 2

\* the engines built over the scenario sc, one per element of E
InitOf(scenarios, E) ==
    \E sc \in scenarios :
        /\ model = sc.model
        /\ time_config = sc.time_config
        /\ config = sc.config
        /\ seed = sc.seed
        /\ err_profile = sc.err_profile
        /\ \E orders \in [E -> OrdersOf(sc.model)] :
              /\ \A e \in E : initialize_from_model(sc.model, sc.time_config, sc.seed, orders[e]).ok
              /\ engine = [e \in E |-> SimulationEngine_new(sc.model, sc.time_config, sc.seed, orders[e])]

\* no PipelineDelay under test
NoPipeline == pipeline = [delay |-> PipelineDelay_new(Zero, One), pushed |-> <<>>, now |-> Zero, out |-> Zero, read |-> FALSE]

\* no expression under evaluation
NoCall == call = [expr |-> Num(0), time |-> Zero, st |-> new_state, out |-> Ok(Zero, new_state), done |-> FALSE]

\* no text under parse
NoText == text = [kind |-> "none", parts |-> <<>>, input |-> <<>>, out |-> [ok |-> TRUE, expr |-> Num(0), err |-> ""], done |-> FALSE, printed |-> <<>>, again |-> [ok |-> TRUE, expr |-> Num(0), err |-> ""], redone |-> FALSE]

\* no fixed-point iteration under observation
NoResolve == resolve = [status |-> "none"]

\* no engine
NoEngine ==
    /\ model = "Tank"
    /\ time_config = TimeConfig(Zero, One, One)
    /\ config = SimulationConfig("Euler", None)
    /\ seed = 0
    /\ err_profile = "smooth"
    /\ engine = <<>>

Init == InitOf(Scenarios, {1}) /\ NoPipeline /\ NoCall /\ NoText /\ NoResolve

InitPair == InitOf(PairScenarios, {1, 2}) /\ NoPipeline /\ NoCall /\ NoText /\ NoResolve

\* SimulationEngine::step on the outcome r of integrator.step:
\* "self.state = integrator.step(..)?; Ok(())"
step_outcome(en, r) ==
    IF r.ok
    THEN [en EXCEPT !.state = r.state, !.ret = "step_ok", !.err = "", !.nsteps = @ + 1, !.nok = @ + 1,
                    !.before = en.state, !.after = r.state]
    ELSE [en EXCEPT !.ret = "step_err", !.err = r.err, !.nsteps = @ + 1]

\* SimulationEngine::step
Step(e) ==
    /\ e \in DOMAIN engine
    /\ engine[e].pc = "idle"
    /\ engine[e].nsteps < StepBudget
    /\ engine' = [engine EXCEPT ![e] = step_outcome(engine[e],
          integrator_step(config.integration_method, model, engine[e].state, time_config.dt, engine[e].order, err_profile))]
    /\ UNCHANGED <<model, time_config, config, seed, err_profile, pipeline, call, text, resolve>>

\* a variant of the entry of run() that starts over from the model's initial state
run_begin_reset(en) ==
    [en EXCEPT !.pc = "run", !.ret = "none", !.err = "", !.returned = <<>>,
               !.state = initialize_from_model(model, time_config, seed, en.order).state,
               !.results = add_point(<<>>, time_config.start, initialize_from_model(model, time_config, seed, en.order).state),
               !.fresh = (en.nsteps = 0 /\ en.nruns = 0),
               !.nruns = @ + 1, !.niter = 0, !.iter_recorded = FALSE]

\* "let mut results = SimulationResults::new()" and "Record initial state"
run_begin(en) ==
    [en EXCEPT !.pc = "run", !.ret = "none", !.err = "", !.returned = <<>>,
               !.results = add_point(<<>>, en.state.time, en.state),
               !.fresh = (en.nsteps = 0 /\ en.nruns = 0),
               !.nruns = @ + 1, !.niter = 0, !.iter_recorded = FALSE]

\* SimulationEngine::run up to the loop
RunBegin(e) ==
    LET en == engine[e]
    IN  /\ e \in DOMAIN engine
        /\ en.pc = "idle"
        /\ en.nruns < MaxRuns
        /\ engine' = [engine EXCEPT ![e] = [run_begin(en) EXCEPT !.entered = en.state]]
        /\ UNCHANGED <<model, time_config, config, seed, err_profile, pipeline, call, text, resolve>>

\* the body of "while self.state.time < stop_time" on the outcome r of
\* integrator.step: the "?", the clamp, the recording decision
run_iteration(en, r, tc, output_interval) ==
    LET st == clamp_time(r.state, tc.stop)
        rec == should_record(output_interval, st.time, tc.dt)
    IN  IF r.ok
        THEN [en EXCEPT !.state = st,
                        !.results = IF rec THEN add_point(@, st.time, st) ELSE @,
                        !.nok = @ + 1, !.niter = @ + 1,
                        !.before = en.state, !.after = r.state,
                        !.iter_recorded = rec]
        ELSE [en EXCEPT !.pc = "idle", !.ret = "run_err", !.err = r.err, !.results = <<>>]

\* a variant of the step size of run() that stops short at the stop time
step_size_to_stop(tc, state) == RMin(tc.dt, RSub(tc.stop, state.time))

\* "let dt = self.model.time.dt", the step size of every iteration of run()
step_size(tc, state) == tc.dt

\* one iteration of "while self.state.time < stop_time"
RunIterate(e) ==
    /\ e \in DOMAIN engine
    /\ engine[e].pc = "run"
    /\ RLt(engine[e].state.time, time_config.stop)
    /\ engine' = [engine EXCEPT ![e] = run_iteration(engine[e],
          integrator_step(config.integration_method, model, engine[e].state, step_size(time_config, engine[e].state), engine[e].order, err_profile),
          time_config, config.output_interval)]
    /\ UNCHANGED <<model, time_config, config, seed, err_profile, pipeline, call, text, resolve>>

\* the loop exit of SimulationEngine::run: Ok(results)
RunReturn(e) ==
    LET en == engine[e]
    IN  /\ e \in DOMAIN engine
        /\ en.pc = "run"
        /\ ~RLt(en.state.time, time_config.stop)
        /\ engine' = [engine EXCEPT ![e] =
              [en EXCEPT !.pc = "idle", !.ret = "run_ok", !.returned = en.results, !.results = <<>>]]
        /\ UNCHANGED <<model, time_config, config, seed, err_profile, pipeline, call, text, resolve>>

\* one engine, driven through step() and run()
Next == Step(1) \/ RunBegin(1) \/ RunIterate(1) \/ RunReturn(1)

Spec == Init /\ [][Next]_vars

\* Engine 1 is driven through step() and run(); engine 2 is a second
\* instance of the same model, configuration and seed, driven through run().
NextPair ==
    \/ Step(1)
    \/ \E e \in {1, 2} : RunBegin(e)
    \/ \E e \in {1, 2} : RunIterate(e)
    \/ \E e \in {1, 2} : RunReturn(e)

SpecPair == InitPair /\ [][NextPair]_vars

-----------------------------------------------------------------------------
(* A PipelineDelay driven directly: push with increasing times, then        *)
(* get_delayed_value.  pushed is every sample handed to push.               *)

MaxTime == 6
MaxPushes == 3

\* the values pushed, none of them the delay's initial value
PushValues == {Rat(5, 1), Rat(9, 1)}

\* PipelineDelay::new(0.0, tau)
InitPipeline ==
    /\ NoEngine /\ NoCall /\ NoText /\ NoResolve
    /\ \E tau \in {One, Rat(2, 1)} :
          pipeline = [delay |-> PipelineDelay_new(Zero, tau), pushed |-> <<>>, now |-> Zero, out |-> Zero, read |-> FALSE]

\* delay.push(t, x), t after every time pushed before
Push ==
    /\ Len(pipeline.pushed) < MaxPushes
    /\ \E t \in 0..MaxTime, x \in PushValues :
          /\ pipeline.pushed # <<>> => RLt(pipeline.pushed[Len(pipeline.pushed)].t, Rat(t, 1))
          /\ pipeline' = [pipeline EXCEPT !.delay = push(@, Rat(t, 1), x),
                                          !.pushed = Append(@, [t |-> Rat(t, 1), v |-> x]),
                                          !.read = FALSE]
    /\ UNCHANGED <<model, time_config, config, seed, err_profile, engine, call, text, resolve>>

\* delay.get_delayed_value(now)
GetDelayed ==
    /\ \E now \in 0..MaxTime :
          pipeline' = [pipeline EXCEPT !.now = Rat(now, 1), !.out = get_delayed_value(pipeline.delay, Rat(now, 1)), !.read = TRUE]
    /\ UNCHANGED <<model, time_config, config, seed, err_profile, engine, call, text, resolve>>

NextPipeline == Push \/ GetDelayed

SpecPipeline == InitPipeline /\ [][NextPipeline]_vars

(* One expression evaluated once at a time of the run, in a fresh state:    *)
(* Expression::evaluate on an EvaluationContext.                            *)

MaxEvalTime == 6
MaxPoints == 3

\* context.time: the half-steps from -1 to MaxEvalTime
EvalTimes == {Rat(k, 2) : k \in (-2)..(2 * MaxEvalTime)}

\* the points a table is drawn from; equal x with different y included
TablePoints == {[x |-> Rat(a, 1), y |-> Rat(b, 1)] : a \in 0..2, b \in {0, 10}}

\* the tables of 1..MaxPoints points, sorted by x or not
Tables == UNION {[1..k -> TablePoints] : k \in 1..MaxPoints}

\* x1, y1, x2, y2, ... as the arguments of WITH_LOOKUP
inline_args(points) == [j \in 1..(2 * Len(points)) |-> Constant(IF j % 2 = 1 THEN points[(j + 1) \div 2].x ELSE points[j \div 2].y)]

\* WITH_LOOKUP(TIME, x1, y1, ...)
LookupCalls == {FunctionCall("WITH_LOOKUP", <<Variable("TIME")>> \o inline_args(points)) : points \in Tables}

PulseStarts == {Num(0), Num(1), Num(2)}
PulseWidths == {Num(0), Constant(Rat(1, 2)), Num(1), Num(3)}
PulseIntervals == {Num(-1), Num(0), Num(2), Num(3)}

\* PULSE(s, w) and PULSE(s, w, p)
PulseCalls ==
    {FunctionCall(nm, <<s, w>>) : nm \in {"PULSE", "pulse"}, s \in PulseStarts, w \in PulseWidths}
    \cup {FunctionCall("PULSE", <<s, w, p>>) : s \in PulseStarts, w \in PulseWidths, p \in PulseIntervals}

\* conditions: below, at and above the threshold, a draw, a comparison, an error
Conditions ==
    {Num(0), Constant(Rat(1, 2)), Constant(Rat(3, 5)), Num(1), FunctionCall("RANDOM", <<>>),
     BinaryOp("GreaterThan", Variable("TIME"), Num(2)), BinaryOp("Divide", Num(1), Num(0))}

\* branches: a value, a division by zero, a draw, a delay call site
Branches ==
    {Num(7), BinaryOp("Divide", Num(1), Num(0)), FunctionCall("RANDOM", <<>>), FunctionCall("DELAY1", <<Num(1), Num(2)>>)}

\* IF c THEN a ELSE b
Conditionals == {Conditional(c, a, b) : c \in Conditions, a \in Branches, b \in Branches}

EvalExprs == LookupCalls \cup PulseCalls \cup Conditionals

\* the x looked up: the half-steps from -1 to 3, around the tables' x
LookupTimes == {t \in EvalTimes : RLe(t, Rat(3, 1))}

\* an EvaluationContext on a fresh SimulationState, its RNG seeded: the
\* lookups and the pulses, which draw nothing, with seed 0
InitEval ==
    /\ NoEngine /\ NoPipeline /\ NoText /\ NoResolve
    /\ \E e \in EvalExprs, t \in EvalTimes, sd \in 0..MaxSeed :
          /\ e \in LookupCalls => t \in LookupTimes
          /\ e \notin Conditionals => sd = 0
          /\ call = [expr |-> e, time |-> t, st |-> seed_stochastic(new_state, sd), out |-> Ok(Zero, new_state), done |-> FALSE]

\* expr.evaluate(&mut context)
Evaluate ==
    /\ ~call.done
    /\ call' = [call EXCEPT !.out = evaluate(call.expr, model, call.st, call.time), !.done = TRUE]
    /\ UNCHANGED <<model, time_config, config, seed, err_profile, engine, pipeline, text, resolve>>

NextEval == Evaluate

SpecEval == InitEval /\ [][NextEval]_vars

(* One text parsed: Expression::parse.  A chain is operands joined by       *)
(* binary operators, parts being operand, operator, operand, ...            *)

MaxOperands == 3

\* a, 2, (a + b), f(a, b), -b, M(a>=b)
Operands ==
    {<<"a">>,
     <<"2">>,
     <<"(", "a", " ", "+", " ", "b", ")">>,
     <<"f", "(", "a", ",", " ", "b", ")">>,
     <<"-", "b">>,
     <<"M", "(", "a", ">", "=", "b", ")">>}

\* the binary operators, each between two spaces
BinaryOperators ==
    {<<" ", "+", " ">>,
     <<" ", "-", " ">>,
     <<" ", "*", " ">>,
     <<" ", "/", " ">>,
     <<" ", "^", " ">>,
     <<" ", ">", " ">>,
     <<" ", "<", " ">>,
     <<" ", ">", "=", " ">>,
     <<" ", "=", "=", " ">>}

\* a binary operator's text without its spaces
operator_text(op) == trim(op)

\* the parts of the chains of k operands
Chains(k) ==
    {[i \in 1..(2 * k - 1) |-> IF i % 2 = 1 THEN os[(i + 1) \div 2] ELSE bs[i \div 2]] :
        os \in [1..k -> Operands], bs \in [1..(k - 1) -> BinaryOperators]}

RECURSIVE Concat(_)
\* the parts written one after the other
Concat(parts) == IF parts = <<>> THEN <<>> ELSE parts[1] \o Concat(Tail(parts))

\* texts that are no expression: the empty string, an empty operand, an
\* unmatched parenthesis, IF without THEN or ELSE, an unrecognized construct
Malformed ==
    {<<>>,
     <<"a", " ", "+">>,
     <<"*", " ", "a">>,
     <<"a", " ", "+", " ", "*", " ", "b">>,
     <<"(", "a">>,
     <<"a", ")">>,
     <<"(", "a", " ", "+", " ", "b">>,
     <<"I", "F", " ", "a">>,
     <<"I", "F", " ", "a", " ", "T", "H", "E", "N", " ", "b">>,
     <<"I", "F", " ", "a", " ", "E", "L", "S", "E", " ", "b">>,
     <<"a", " ", "$", " ", "b">>,
     <<"(", ")">>,
     <<"f", "(", "a">>}

\* expressions whose printed text is parsed again: comparisons, negations,
\* a negated parenthesis, conditionals alone and inside binary operators
Printable ==
    {<<"a", " ", ">", "=", " ", "b">>,
     <<"a", " ", ">", " ", "b">>,
     <<"a", " ", "+", " ", "b", " ", "*", " ", "2">>,
     <<"2", " ", "*", " ", "(", "a", " ", "+", " ", "b", ")">>,
     <<"-", "a", " ", "+", " ", "b">>,
     <<"-", "(", "a", " ", "+", " ", "b", ")">>,
     <<"a", " ", "*", " ", "(", "-", "2", ")">>,
     <<"M", "A", "X", "(", "a", ",", " ", "b", ")", " ", "-", " ", "2">>,
     <<"I", "F", " ", "a", " ", ">", " ", "b", " ", "T", "H", "E", "N", " ", "a", " ", "E", "L", "S", "E", " ", "b">>,
     <<"2", " ", "*", " ", "(", "I", "F", " ", "a", " ", "T", "H", "E", "N", " ", "b", " ", "E", "L", "S", "E", " ", "2", ")">>,
     <<"(", "I", "F", " ", "a", " ", "T", "H", "E", "N", " ", "b", " ", "E", "L", "S", "E", " ", "2", ")", " ", "*", " ", "2">>,
     <<"a", " ", "+", " ", "(", "I", "F", " ", "a", " ", ">", " ", "2", " ", "T", "H", "E", "N", " ", "b", " ", "E", "L", "S", "E", " ", "2", ")">>,
     <<"I", "F", " ", "a", " ", "T", "H", "E", "N", " ", "(", "I", "F", " ", "b", " ", "T", "H", "E", "N", " ", "1", " ", "E", "L", "S", "E", " ", "2", ")", " ", "E", "L", "S", "E", " ", "2">>}

\* the parts of the text t that are as long as name
Pool(t, name) == {SubSeq(t, i, i + Len(name) - 1) : i \in 1..(Len(t) - Len(name) + 1)}

\* the text of a name that parse took from the input t
chars_of(name, t) == IF name = "" THEN <<>> ELSE CHOOSE s \in Pool(t, name) : to_string(s) = name

RECURSIVE nat_text(_)
\* the decimal digits of a natural number, as a text
nat_text(k) == IF k < 10 THEN <<Digits[k + 1]>> ELSE Append(nat_text(k \div 10), Digits[(k % 10) + 1])

\* write!(f, "{}", val) for an f64, as a text: fmt_f64 by characters
f64_text(val) ==
    (IF val.n < 0 THEN <<"-">> ELSE <<>>)
    \o nat_text(((Abs(val.n) * 10) \div val.d) \div 10)
    \o (IF ((Abs(val.n) * 10) \div val.d) % 10 = 0 THEN <<>> ELSE <<".", Digits[(((Abs(val.n) * 10) \div val.d) % 10) + 1]>>)

\* the match on op in Display::fmt, as a text
op_text(op) ==
    CASE op = "Add" -> <<"+">>
      [] op = "Subtract" -> <<"-">>
      [] op = "Multiply" -> <<"*">>
      [] op = "Divide" -> <<"/">>
      [] op = "Power" -> <<"^">>
      [] op = "GreaterThan" -> <<">">>
      [] op = "LessThan" -> <<"<">>
      [] op = "GreaterEqual" -> <<">", "=">>
      [] op = "LessEqual" -> <<"<", "=">>
      [] op = "Equal" -> <<"=", "=">>
      [] op = "NotEqual" -> <<"!", "=">>

RECURSIVE display(_, _)
RECURSIVE display_args(_, _, _)

\* the arguments of a call, each printed, joined by ", "
display_args(args, i, t) ==
    IF i > Len(args) THEN <<>>
    ELSE (IF i > 1 THEN <<",", " ">> ELSE <<>>) \o display(args[i], t) \o display_args(args, i + 1, t)

\* Display::fmt by characters, for an expression parsed from the text t:
\* format!("{}", e)
display(e, t) ==
    CASE e.kind = "Constant" -> f64_text(e.val)
      [] e.kind = "Variable" -> chars_of(e.name, t)
      [] e.kind = "BinaryOp" -> <<"(">> \o display(e.left, t) \o <<" ">> \o op_text(e.op) \o <<" ">> \o display(e.right, t) \o <<")">>
      [] e.kind = "UnaryOp" -> <<"(", "-">> \o display(e.expr, t) \o <<")">>
      [] e.kind = "FunctionCall" -> chars_of(e.name, t) \o <<"(">> \o display_args(e.args, 1, t) \o <<")">>
      [] e.kind = "Conditional" ->
            <<"I", "F", " ">> \o display(e.condition, t) \o <<" ", "T", "H", "E", "N", " ">> \o display(e.true_expr, t)
            \o <<" ", "E", "L", "S", "E", " ">> \o display(e.false_expr, t)

\* a text before it is parsed
Unparsed(kind, parts, s) ==
    [kind |-> kind, parts |-> parts, input |-> s, out |-> ParseOk(Num(0)), done |-> FALSE,
     printed |-> <<>>, again |-> ParseOk(Num(0)), redone |-> FALSE]

\* a text to parse
InitParse ==
    /\ NoEngine /\ NoPipeline /\ NoCall /\ NoResolve
    /\ \/ \E k \in 1..MaxOperands : \E parts \in Chains(k) : text = Unparsed("chain", parts, Concat(parts))
       \/ \E s \in Malformed : text = Unparsed("malformed", <<>>, s)
       \/ \E s \in Printable : text = Unparsed("printable", <<>>, s)

\* Expression::parse(input)
Parse ==
    /\ ~text.done
    /\ text' = [text EXCEPT !.out = parse(text.input), !.done = TRUE]
    /\ UNCHANGED <<model, time_config, config, seed, err_profile, engine, pipeline, call, resolve>>

\* Expression::parse(&format!("{}", e)) on the expression e parsed before
Reparse ==
    /\ text.done /\ text.out.ok /\ ~text.redone
    /\ text' = [text EXCEPT !.printed = display(text.out.expr, text.input),
                            !.again = parse(display(text.out.expr, text.input)),
                            !.redone = TRUE]
    /\ UNCHANGED <<model, time_config, config, seed, err_profile, engine, pipeline, call, resolve>>

NextParse == Parse \/ Reparse

SpecParse == InitParse /\ [][NextParse]_vars

(* The fixed-point iteration over the auxiliaries of a step, observed pass  *)
(* by pass: the loop of EulerIntegrator::step, or the loop of the first     *)
(* evaluate_system of the other integrators, on a state that carries the    *)
(* auxiliary values prev; and the step itself on the same state.            *)

\* the auxiliary values a previous state carries, the same for every auxiliary
PrevValues == {Zero, Rat(1, 2), One}
PrevAux(m) == {[name \in DOMAIN AuxiliariesOf(m) |-> v] : v \in PrevValues}

\* the loop before pass 0 in the state start: Euler iterates on the draft of
\* the next state with an empty map of new auxiliaries and merges the
\* clones; the others iterate on the state with its own auxiliaries
Resolving(method, start, dt, order) ==
    [status |-> "running", start |-> start, order |-> order, merge |-> (method = "Euler"),
     trial |-> IF method = "Euler" THEN [start EXCEPT !.time = RAdd(@, dt)] ELSE start,
     auxs |-> IF method = "Euler" THEN EmptyMap ELSE start.auxiliaries,
     pass |-> 0, changes |-> <<>>, errors |-> <<>>, err |-> "",
     stepped |-> FALSE, step |-> StepOk(start)]

InitAux ==
    /\ NoPipeline /\ NoCall /\ NoText
    /\ engine = <<>>
    /\ seed = 0
    /\ err_profile = "smooth"
    /\ time_config = TimeConfig(Zero, One, One)
    /\ model \in AuxModels
    /\ \E im \in Methods : config = SimulationConfig(im, None)
    /\ \E prev \in PrevAux(model), order \in OrdersOf(model) :
          resolve = Resolving(config.integration_method,
                              [initialize_from_model(model, time_config, seed, order).state EXCEPT !.auxiliaries = prev],
                              time_config.dt, order)

\* the loop after the pass p at index rs.pass
after_pass(rs, p) ==
    [rs EXCEPT !.status = CASE pass_end(p, rs.pass) = "return" -> "failed"
                            [] pass_end(p, rs.pass) = "break" -> "converged"
                            [] rs.pass + 1 >= MAX_PASSES -> "exhausted"
                            [] OTHER -> "running",
               !.trial = [p.trial EXCEPT !.auxiliaries = p.auxs],
               !.auxs = p.auxs,
               !.pass = @ + 1,
               !.changes = Append(@, p.changed),
               !.errors = Append(@, p.any_errors),
               !.err = p.err]

\* one pass of "for pass in 0..MAX_PASSES"
AuxPass ==
    /\ resolve.status = "running"
    /\ resolve' = after_pass(resolve,
          aux_pass(model, iter(AuxiliariesOf(model), resolve.order), 1, resolve.trial, resolve.start.time,
                   resolve.auxs, FALSE, FALSE, resolve.pass, resolve.merge))
    /\ UNCHANGED <<model, time_config, config, seed, err_profile, engine, pipeline, call, text>>

\* the loop has ended
Resolved == resolve.status \in {"converged", "exhausted", "failed"}

\* integrator.step on the same state, once the loop has been observed
AuxStep ==
    /\ Resolved
    /\ ~resolve.stepped
    /\ resolve' = [resolve EXCEPT !.stepped = TRUE,
                                  !.step = integrator_step(config.integration_method, model, resolve.start,
                                                           time_config.dt, resolve.order, err_profile)]
    /\ UNCHANGED <<model, time_config, config, seed, err_profile, engine, pipeline, call, text>>

NextAux == AuxPass \/ AuxStep

SpecAux == InitAux /\ [][NextAux]_vars

-----------------------------------------------------------------------------
(* Properties.                                                              *)

\* the Results a run() returned with Ok
Returned(e) == IF engine[e].ret = "run_ok" THEN engine[e].returned ELSE <<>>

\* the points recorded by run(), returned or under construction
Recorded(e) == IF engine[e].pc = "run" THEN engine[e].results ELSE Returned(e)

\* (stop - start) / dt when it is a whole number, else -1
WholeSteps ==
    LET q == RDiv(RSub(time_config.stop, time_config.start), time_config.dt)
    IN  IF q.d = 1 THEN q.n ELSE -1

\* a stock's inflow or outflow list names a flow the model does not have
HasMissingFlow(m) ==
    \E s \in DOMAIN StocksOf(m) :
        ~AllFound(StocksOf(m)[s].inflows, FlowsOf(m)) \/ ~AllFound(StocksOf(m)[s].outflows, FlowsOf(m))

\* the constraints of the model's stocks hold in a state
WithinConstraints(m, st) ==
    \A s \in DOMAIN st.stocks \cap DOMAIN StocksOf(m) :
        /\ StocksOf(m)[s].non_negative => RGe(st.stocks[s], Zero)
        /\ StocksOf(m)[s].max_value.some => RLe(st.stocks[s], StocksOf(m)[s].max_value.v)

\* s + dt * (sum of inflow values - sum of outflow values), from the flow
\* values of the state after the step
RawEulerUpdate(m, s, before, after, dt) ==
    RAdd(before.stocks[s],
         RMul(dt, RSub(SumFlows(StocksOf(m)[s].inflows, 1, after.flows),
                       SumFlows(StocksOf(m)[s].outflows, 1, after.flows))))

\* every flow value of the state after an Euler step is its equation
\* evaluated against the stocks and the time at the start of the step
FlowsFromStart(m, before, after) ==
    \A f \in DOMAIN FlowsOf(m) :
        after.flows[f] = evaluate(FlowsOf(m)[f], m, [before EXCEPT !.auxiliaries = after.auxiliaries], before.time).val

\* an Euler step succeeded on engine e; before and after are its argument and value
EulerStepped(e) == config.integration_method = "Euler" /\ engine[e].nok > 0

\* C1: the Results returned by run() on a freshly constructed engine have
\* strictly increasing times, times[0] = model.start, and every recorded
\* time <= model.stop, for every integrator and recording policy.
C1_TimesIncreasing ==
    \A e \in DOMAIN engine :
        engine[e].ret = "run_ok" /\ engine[e].fresh =>
            LET r == engine[e].returned
            IN  /\ Len(r) >= 1
                /\ r[1].time = time_config.start
                /\ \A i \in 1..Len(r) : r[i].time = r[i].state.time /\ RLe(r[i].time, time_config.stop)
                /\ \A i \in 1..(Len(r) - 1) : RLt(r[i].time, r[i + 1].time)

\* a fresh run whose last step overshot the stop time and was clamped, three points recorded
C1_Witness ==
    \E e \in DOMAIN engine :
        /\ engine[e].ret = "run_ok" /\ engine[e].fresh
        /\ Len(engine[e].returned) >= 3
        /\ RGt(engine[e].after.time, time_config.stop)
        /\ engine[e].returned[Len(engine[e].returned)].time = time_config.stop

\* C2: in every state recorded by run(), the initial state included, each
\* non_negative stock is >= 0 and each stock with a max_value M is <= M.
C2_RecordedWithinConstraints ==
    \A e \in DOMAIN engine :
        \A i \in 1..Len(Recorded(e)) : WithinConstraints(model, Recorded(e)[i].state)

\* C3: in every state recorded by a successful run(), the key set of the
\* flow map is the model's set of flow names and the key set of the
\* auxiliary map is the model's set of auxiliary names.
C3_ExactKeySets ==
    \A e \in DOMAIN engine :
        \A i \in 1..Len(Returned(e)) :
            /\ DOMAIN Returned(e)[i].state.flows = DOMAIN FlowsOf(model)
            /\ DOMAIN Returned(e)[i].state.auxiliaries = DOMAIN AuxiliariesOf(model)

\* a successful run over a model whose auxiliary "inv" fails on the first
\* fixed-point pass of the first step (division by the zero-initialized "base")
C3_Witness ==
    \E e \in DOMAIN engine :
        /\ engine[e].ret = "run_ok" /\ engine[e].fresh
        /\ Len(engine[e].returned) >= 3
        /\ DOMAIN AuxiliariesOf(model) # {}
        /\ aux_pass(model, iter(AuxiliariesOf(model), engine[e].order), 1, engine[e].returned[1].state,
                    time_config.start, engine[e].returned[1].state.auxiliaries, FALSE, FALSE, 0, FALSE).any_errors

\* C4 as stated: an Euler step sets every stock to
\* s + dt * (sum of its inflow values - sum of its outflow values).
C4_RawUpdate ==
    \A e \in DOMAIN engine :
        EulerStepped(e) =>
            \A s \in DOMAIN engine[e].after.stocks :
                engine[e].after.stocks[s] = RawEulerUpdate(model, s, engine[e].before, engine[e].after, time_config.dt)

\* C4, amended: an Euler step sets every stock to
\* s + dt * (sum of its inflow values - sum of its outflow values), raised to
\* 0 if the stock is non_negative and lowered to max_value if it has one;
\* each flow is evaluated against the stocks and time at the start of the
\* step; Population 100 with inflow Population * 0.1 is 110 after one step
\* of dt = 1, and a stock fed by PULSE(5, 2) from 0 to 10 with dt = 1 ends at 2.
C4_ConstrainedUpdate ==
    \A e \in DOMAIN engine :
        /\ EulerStepped(e) =>
              /\ \A s \in DOMAIN engine[e].after.stocks :
                    engine[e].after.stocks[s] =
                        constrain(model, s, RawEulerUpdate(model, s, engine[e].before, engine[e].after, time_config.dt))
              /\ engine[e].after.time = RAdd(engine[e].before.time, time_config.dt)
              /\ model \notin {"Dice"} \cup DelayModels => FlowsFromStart(model, engine[e].before, engine[e].after)
        /\ model = "Growth" /\ engine[e].state.time = One => engine[e].state.stocks["Population"] = Rat(110, 1)
        /\ model = "Pulse" /\ engine[e].state.time = Rat(10, 1) => engine[e].state.stocks["Total"] = Rat(2, 1)

\* the pulse-fed stock at time 10, having been 1 after the step from time 5
C4_Witness ==
    \E e \in DOMAIN engine :
        /\ EulerStepped(e)
        /\ model = "Pulse"
        /\ engine[e].state.time = Rat(10, 1)
        /\ engine[e].ret = "run_ok" /\ engine[e].fresh
        /\ engine[e].returned[7].state.stocks["Total"] = One
        /\ engine[e].state.stocks["Total"] = Rat(2, 1)

\* C5: when N = (stop - start) / dt is whole, N calls of step() on a fresh
\* engine leave it in the same state (time, stocks, flows, auxiliaries) as
\* run() leaves another fresh engine of the same model and config.
C5_StepsMatchRun ==
    ( /\ DOMAIN engine = {1, 2}
      /\ engine[1].order = engine[2].order
      /\ WholeSteps >= 0
      /\ engine[1].nruns = 0 /\ engine[1].nsteps = WholeSteps /\ engine[1].nok = WholeSteps
      /\ engine[2].ret = "run_ok" /\ engine[2].fresh )
    => /\ engine[1].state.time = engine[2].state.time
       /\ engine[1].state.stocks = engine[2].state.stocks
       /\ engine[1].state.flows = engine[2].state.flows
       /\ engine[1].state.auxiliaries = engine[2].state.auxiliaries

\* C6: given identical (model, config, seed), two runs record identical
\* trajectories, whatever the order in which the name-keyed collections
\* are iterated.
C6_RunsAgree ==
    ( /\ DOMAIN engine = {1, 2}
      /\ engine[1].ret = "run_ok" /\ engine[1].fresh
      /\ engine[2].ret = "run_ok" /\ engine[2].fresh )
    => \A i \in 1..Len(engine[1].returned) :
          /\ i <= Len(engine[2].returned)
          /\ engine[1].returned[i].time = engine[2].returned[i].time
          /\ engine[1].returned[i].state.stocks = engine[2].returned[i].state.stocks
          /\ engine[1].returned[i].state.flows = engine[2].returned[i].state.flows
          /\ engine[1].returned[i].state.auxiliaries = engine[2].returned[i].state.auxiliaries

\* C7: the last time recorded by run() is within dt of model.stop, with or
\* without an output_interval.
C7_LastWithinDt ==
    \A e \in DOMAIN engine :
        engine[e].ret = "run_ok" =>
            RLe(RSub(time_config.stop, engine[e].returned[Len(engine[e].returned)].time), time_config.dt)

\* C8: with an output_interval, run() records the state after a step iff
\* floor(t / interval) at the new state time is greater than
\* floor(t_prev / interval) at the time of the state before that step;
\* without an output_interval every step is recorded.
C8_RecordOnBoundary ==
    \A e \in DOMAIN engine :
        engine[e].pc = "run" /\ engine[e].niter > 0 =>
            ( engine[e].iter_recorded <=>
                IF config.output_interval.some
                THEN RFloor(RDiv(engine[e].state.time, config.output_interval.v))
                        > RFloor(RDiv(engine[e].before.time, config.output_interval.v))
                ELSE TRUE )

\* C9: a successful step returns a state at time state.time + h with
\* 0 < h <= dt; h = dt for Euler, Heun, RK4 and Backward Euler.
C9_StepWithinDt ==
    \A e \in DOMAIN engine :
        engine[e].nok > 0 =>
            LET h == RSub(engine[e].after.time, engine[e].before.time)
            IN  /\ RLt(Zero, h)
                /\ RLe(h, time_config.dt)
                /\ config.integration_method # "RK45" => h = time_config.dt

C11_FreshSamples ==
    \A e \in DOMAIN engine :
        engine[e].nok > 0 /\ model = "Dice" =>
            LET b == engine[e].before.stochastic
                a == engine[e].after.stochastic
            IN  /\ a.pos >= b.pos + 2
                /\ \E p, q \in b.pos..(a.pos - 1) :
                      /\ p # q
                      /\ engine[e].after.flows["fa"] = Sample([b EXCEPT !.pos = p])
                      /\ engine[e].after.flows["fb"] = Sample([b EXCEPT !.pos = q])

\* the time at which the flow values of the state after a step were
\* evaluated: the start of the step under Euler, its end under the others
FlowTime(e) == IF config.integration_method = "Euler" THEN engine[e].before.time ELSE engine[e].after.time

\* C12: the value returned by a DELAY1 / DELAY3 call site follows its input
\* as an exponential lag: with the constant input 1, the time constant 10,
\* the initial value 0 and dt = 1, the value returned in a step is above the
\* one returned in the previous step, under Euler by dt * (1 - value) / 10;
\* the DELAY3 output has left its initial value by the fourth step.
C12_DelayFollowsInput ==
    \A e \in DOMAIN engine :
        model = "Lag" /\ engine[e].nok >= 2 =>
            LET b == engine[e].before.flows["lagged"]
                a == engine[e].after.flows["lagged"]
            IN  /\ RLt(b, a) /\ RLe(a, One)
                /\ config.integration_method = "Euler" =>
                      a = RAdd(b, RMul(time_config.dt, RDiv(RSub(One, b), Rat(10, 1))))
                /\ engine[e].nok >= 4 => RGt(engine[e].after.flows["lagged3"], Zero)

\* C13: DELAYP(x, tau, init) returns at time t the value x had at t - tau, and
\* init while t - tau precedes the history: with x = TIME + 7, tau = 1 and
\* init = 3 the call returns t - 1 + 7 once t - tau is after the start of the
\* run, 3 before the start, and one of the two at the start.
C13_PipelineReturnsPastInput ==
    \A e \in DOMAIN engine :
        model = "Pipe" /\ engine[e].nok > 0 =>
            LET target == RSub(FlowTime(e), One)
                echo == engine[e].after.flows["echo"]
            IN  /\ RLt(target, time_config.start) => echo = Rat(3, 1)
                /\ target = time_config.start => echo \in {Rat(3, 1), Rat(7, 1)}
                /\ RGt(target, time_config.start) => echo = RAdd(target, Rat(7, 1))

\* the delay call sites among the flow equations of a model
CallSites(m) == {f \in DOMAIN FlowsOf(m) : FlowsOf(m)[f].kind = "FunctionCall" /\ to_uppercase(FlowsOf(m)[f].name) \in {"DELAY1", "SMOOTH", "DELAY3", "DELAYP"}}

\* C14: every delay call site has its own instance, created on its first
\* evaluation and kept; the instance of one call site never changes the
\* value another call site returns: after the first step each call site
\* returned what it returns when it is evaluated alone, and the returned
\* state holds one instance per call site.
C14_IndependentInstances ==
    \A e \in DOMAIN engine :
        model = "Sites" /\ engine[e].nok = 1 =>
            /\ \A f \in CallSites(model) :
                  engine[e].after.flows[f] = evaluate(FlowsOf(model)[f], model, engine[e].before, FlowTime(e)).val
            /\ Cardinality(DOMAIN engine[e].after.delays.exponential_delays) = Cardinality(CallSites(model))

\* the linear interpolation of the samples at a time between the first and
\* the last of them
Interpolated(samples, at) ==
    LET i == CHOOSE j \in 1..Len(samples) : RGe(samples[j].t, at) /\ \A k \in 1..(j - 1) : RLt(samples[k].t, at)
    IN  IF samples[i].t = at THEN samples[i].v
        ELSE RAdd(samples[i - 1].v,
                  RMul(RDiv(RSub(at, samples[i - 1].t), RSub(samples[i].t, samples[i - 1].t)),
                       RSub(samples[i].v, samples[i - 1].v)))

\* C15: get_delayed_value(now) returns the linear interpolation of the
\* pushed samples at now - tau whenever that time is at or after the first
\* pushed time (and not after the last), and the initial value when it
\* precedes every pushed sample or nothing was pushed.
C15_InterpolatesPushed ==
    pipeline.read =>
        LET target == RSub(pipeline.now, pipeline.delay.delay_time)
            pushed == pipeline.pushed
        IN  IF pushed = <<>> \/ RLt(target, pushed[1].t) THEN pipeline.out = pipeline.delay.initial_value
            ELSE RLe(target, pushed[Len(pushed)].t) => pipeline.out = Interpolated(pushed, target)

\* the inline points of an evaluated WITH_LOOKUP call
CallPoints == [i \in 1..((Len(call.expr.args) - 1) \div 2) |-> [x |-> call.expr.args[2 * i].val, y |-> call.expr.args[2 * i + 1].val]]

\* a WITH_LOOKUP call on a table sorted by x has been evaluated
LookupDone ==
    /\ call.done
    /\ call.expr.kind = "FunctionCall" /\ call.expr.name = "WITH_LOOKUP"
    /\ \A i \in 2..Len(CallPoints) : RLe(CallPoints[i - 1].x, CallPoints[i].x)

\* C16: on a table with at least one point and non-decreasing x the lookup
\* returns the first y for x at or below the first x, the last y for x at
\* or above the last x, the y of a breakpoint when x equals it, and between
\* two breakpoints the linear interpolation of the bracketing points, whose
\* x differ.
C16_LookupContract ==
    LookupDone =>
        LET pts == CallPoints
            n == Len(pts)
            x == call.time
            r == call.out.val
        IN  /\ call.out.ok
            /\ RLe(x, pts[1].x) => r = pts[1].y
            /\ RGe(x, pts[n].x) => r = pts[n].y
            /\ (\E i \in 1..n : pts[i].x = x) => \E i \in 1..n : pts[i].x = x /\ r = pts[i].y
            /\ (RGt(x, pts[1].x) /\ RLt(x, pts[n].x) /\ \A i \in 1..n : pts[i].x # x) =>
                   \E i \in 2..n :
                      /\ RLt(pts[i - 1].x, x) /\ RLt(x, pts[i].x)
                      /\ r = RAdd(pts[i - 1].y, RMul(RDiv(RSub(x, pts[i - 1].x), RSub(pts[i].x, pts[i - 1].x)), RSub(pts[i].y, pts[i - 1].y)))

\* a lookup at the x shared by every point of a table whose first and last
\* y differ
C16_OneXTable ==
    /\ LookupDone
    /\ \A i \in 1..Len(CallPoints) : CallPoints[i].x = call.time
    /\ CallPoints[1].y # CallPoints[Len(CallPoints)].y
    /\ call.out.val = CallPoints[1].y

\* a PULSE call has been evaluated
PulseDone == call.done /\ call.expr.kind = "FunctionCall" /\ to_uppercase(call.expr.name) = "PULSE"

\* t lies in [lo, lo + w)
InWindow(t, lo, w) == RLe(lo, t) /\ RLt(t, RAdd(lo, w))

\* C17: PULSE(s, w) is 1 if s <= t < s + w and 0 otherwise; PULSE(s, w, p)
\* with p > 0 is 1 exactly when t lies in [s + k*p, s + k*p + w) for some
\* integer k >= 0 and 0 otherwise; with p <= 0 it is an error.
C17_PulseWindows ==
    PulseDone =>
        LET s == call.expr.args[1].val
            w == call.expr.args[2].val
            t == call.time
        IN  IF Len(call.expr.args) = 2
            THEN call.out.ok /\ call.out.val = Bool(InWindow(t, s, w))
            ELSE LET p == call.expr.args[3].val IN
                 IF RLe(p, Zero) THEN ~call.out.ok
                 ELSE /\ call.out.ok
                      /\ call.out.val = Bool(\E k \in 0..(2 * MaxEvalTime) : InWindow(t, RAdd(s, RMul(Rat(k, 1), p)), w))

\* a repeating pulse is on in a later period and off at the end of a window
C17_LaterPeriod ==
    /\ PulseDone /\ Len(call.expr.args) = 3 /\ call.out.ok
    /\ call.out.val = One
    /\ RGe(call.time, RAdd(call.expr.args[1].val, call.expr.args[3].val))
    /\ RLt(call.expr.args[2].val, call.expr.args[3].val)

\* a Conditional has been evaluated
ConditionalDone == call.done /\ call.expr.kind = "Conditional"

\* the RANDOM calls and the delay call sites of one of the expressions drawn
Draws(e) == IF e.kind = "FunctionCall" /\ e.name = "RANDOM" THEN 1 ELSE 0
Sites(e) == IF e.kind = "FunctionCall" /\ e.name = "DELAY1" THEN {delay_key(e.name, e.args)} ELSE {}

\* C18: a Conditional evaluates its condition once, selects the then-branch
\* iff the condition value is > 0.5, and evaluates only the selected
\* branch: the result, the error, the RNG draws and the delay instances are
\* those of the condition followed by the selected branch.
C18_ShortCircuit ==
    ConditionalDone =>
        LET c == evaluate(call.expr.condition, model, call.st, call.time)
            selected == IF RGt(c.val, Rat(1, 2)) THEN call.expr.true_expr ELSE call.expr.false_expr
        IN  IF ~c.ok THEN ~call.out.ok /\ call.out.st = call.st
            ELSE /\ call.out = evaluate(selected, model, c.st, call.time)
                 /\ call.out.st.stochastic.pos = call.st.stochastic.pos + Draws(call.expr.condition) + Draws(selected)
                 /\ DOMAIN call.out.st.delays.exponential_delays = Sites(selected)
                 /\ call.out.ok <=> selected # BinaryOp("Divide", Num(1), Num(0))

\* the then-branch selected by a draw, with the division by zero in the
\* else-branch
C18_ErrorNotTaken ==
    /\ ConditionalDone /\ call.out.ok
    /\ call.expr.condition = FunctionCall("RANDOM", <<>>)
    /\ call.expr.true_expr = FunctionCall("DELAY1", <<Num(1), Num(2)>>)
    /\ call.expr.false_expr = BinaryOp("Divide", Num(1), Num(0))
    /\ call.out.st.stochastic.pos = 1

\* a malformed text has been parsed
MalformedDone == text.done /\ text.kind = "malformed"

\* C19: Expression::parse returns a parse error for an empty operand, an
\* unmatched parenthesis, IF without THEN or ELSE, an unrecognized construct
\* and the empty string.
C19_MalformedRejected == MalformedDone => ~text.out.ok

\* the empty string parsed to a variable of that name
C19_EmptyIsVariable == MalformedDone /\ text.input = <<>> /\ text.out.ok /\ text.out.expr = Variable("")

\* a chain of at least two operands has been parsed
ChainDone == text.done /\ Len(text.parts) >= 3

\* the precedence level of a binary operator: comparison, additive,
\* multiplicative, exponentiation
Level(op) ==
    CASE operator_text(op) \in {<<">">>, <<"<">>, <<">", "=">>, <<"=", "=">>} -> 1
      [] operator_text(op) \in {<<"+">>, <<"-">>} -> 2
      [] operator_text(op) \in {<<"*">>, <<"/">>} -> 3
      [] operator_text(op) = <<"^">> -> 4

\* the Operator a binary operator's text stands for
OperatorNamed(op) ==
    CASE operator_text(op) = <<">", "=">> -> "GreaterEqual"
      [] operator_text(op) = <<"=", "=">> -> "Equal"
      [] OTHER -> operator_of(operator_text(op)[1])

\* the part that is the rightmost operator of the lowest level among the
\* chain's operators
RootPart(parts) ==
    LET at == {i \in 1..Len(parts) : i % 2 = 0}
        lowest == {i \in at : \A j \in at : Level(parts[i]) <= Level(parts[j])}
    IN  CHOOSE i \in lowest : \A j \in lowest : i >= j

\* C20: the root of the parsed tree is the rightmost depth-zero operator of
\* the lowest precedence level present, its sides the texts on either side
\* of it: operators inside parentheses or function arguments do not split,
\* a minus directly after an operator is unary, and chains of one level
\* associate to the left.
C20_RootIsLowestRightmost ==
    ChainDone =>
        LET k == RootPart(text.parts) IN
        /\ text.out.ok
        /\ text.out.expr = BinaryOp(OperatorNamed(text.parts[k]),
                                    parse(Concat(SubSeq(text.parts, 1, k - 1))).expr,
                                    parse(Concat(SubSeq(text.parts, k + 1, Len(text.parts)))).expr)

\* a * -b parsed as a subtraction whose left side is the variable "a *"
C20_MinusSplits ==
    /\ ChainDone
    /\ text.input = <<"a", " ", "*", " ", "-", "b">>
    /\ text.out.expr = BinaryOp("Subtract", Variable("a *"), Variable("b"))

\* a parsed expression has been printed and the print parsed
Reparsed == text.redone

\* C21: parsing the printed text of an expression produced by parse yields
\* that expression again, for comparisons, negations and conditionals
\* nested inside binary operators as for the rest.
C21_RoundTrip == Reparsed => text.again.ok /\ text.again.expr = text.out.expr

\* (IF a THEN b ELSE 2) * 2 is printed without the parentheses around the
\* conditional and parsed again as a conditional whose else-branch is 2 * 2
C21_ConditionalSwallows ==
    /\ Reparsed
    /\ text.out.expr = BinaryOp("Multiply", Conditional(Variable("a"), Variable("b"), Num(2)), Num(2))
    /\ to_string(text.printed) = "(IF a THEN b ELSE 2 * 2)"
    /\ text.again.expr = Conditional(Variable("a"), Variable("b"), BinaryOp("Multiply", Num(2), Num(2)))


\* the step size compute_error_and_step derives from a rejected attempt,
\* before it is clamped to [min_step, max_step]
recomputed_step(profile, h) == RMul(RMul(safety_factor, h), inv_fifth_root(normalized_error(profile, h)))

RECURSIVE attempts_outcome(_, _, _)
\* the outcome of the attempt loop by the rule "accept at error <= 1, fail
\* after MAX_ATTEMPTS rejections, fail when the recomputed step size falls
\* below min_step, otherwise retry with the recomputed step size"
attempts_outcome(profile, h, attempt) ==
    IF attempt >= MAX_ATTEMPTS THEN [ok |-> FALSE, h |-> h]
    ELSE IF normalized_error(profile, h) <= 1 THEN [ok |-> TRUE, h |-> h]
    ELSE IF RLt(recomputed_step(profile, h), min_step) THEN [ok |-> FALSE, h |-> h]
    ELSE attempts_outcome(profile, RMin(recomputed_step(profile, h), max_step), attempt + 1)

\* step() was called on an RK45 engine and has returned
AdaptiveStepped(e) == config.integration_method = "RK45" /\ engine[e].ret \in {"step_ok", "step_err"}

\* C22: an RK45 step accepts the first attempt whose normalized error is
\* <= 1 and otherwise retries from the same state with the recomputed step
\* size; it fails after 10 rejected attempts and as soon as the recomputed
\* step size falls below min_step.
C22_AttemptRule ==
    \A e \in DOMAIN engine :
        AdaptiveStepped(e) =>
            LET claimed == attempts_outcome(err_profile, RMin(time_config.dt, max_step), 0)
            IN  /\ engine[e].ret = "step_ok" <=> claimed.ok
                /\ engine[e].ret = "step_ok" =>
                      engine[e].after.time = RAdd(engine[e].before.time, claimed.h)

\* the first attempt is rejected, the recomputed step size is below
\* min_step, and the step succeeds with h = min_step
C22_ClampedAccepted ==
    \E e \in DOMAIN engine :
        /\ AdaptiveStepped(e)
        /\ normalized_error(err_profile, RMin(time_config.dt, max_step)) > 1
        /\ RLt(recomputed_step(err_profile, RMin(time_config.dt, max_step)), min_step)
        /\ engine[e].ret = "step_ok"
        /\ engine[e].after.time = RAdd(engine[e].before.time, min_step)

\* every attempt is rejected with a recomputed step size below min_step, and
\* the step fails on the attempt count
C22_ClampedExhausted ==
    \E e \in DOMAIN engine :
        /\ AdaptiveStepped(e)
        /\ err_profile = "stiff"
        /\ engine[e].ret = "step_err"
        /\ engine[e].err = "RK45 failed to converge after maximum attempts"

\* no step fails on the step size
C22_NeverBelowMinimum == \A e \in DOMAIN engine : engine[e].err # "Step size below minimum"


\* the passes made so far, or all of them once the loop has ended
Passes == 1..Len(resolve.errors)

\* the loop and the iteration inside the integrator agree
ResolveAgrees ==
    Resolved =>
        LET a == aux_passes(model, iter(AuxiliariesOf(model), resolve.order),
                            Resolving(config.integration_method, resolve.start, time_config.dt, resolve.order).trial,
                            resolve.start.time,
                            Resolving(config.integration_method, resolve.start, time_config.dt, resolve.order).auxs,
                            0, resolve.merge)
        IN  /\ a.ok = (resolve.status # "failed")
            /\ a.auxs = resolve.auxs
            /\ a.passes = resolve.pass

\* C23: an error of an auxiliary's evaluation on a pass of index 0..4 is
\* swallowed: the loop does not end on that pass and the auxiliaries are
\* evaluated again on the next one; an error on a pass of index 5 or more
\* ends the loop and fails the step.
C23_ErrorsByPass ==
    resolve.status # "none" =>
        \A i \in Passes :
            resolve.errors[i] =>
                IF i - 1 < 5
                THEN i < Len(resolve.errors) \/ resolve.status = "running"
                ELSE /\ i = Len(resolve.errors)
                     /\ resolve.status = "failed"
                     /\ resolve.stepped => ~resolve.step.ok /\ resolve.step.err = resolve.err

\* errors on the passes 0 .. 4 were swallowed, the error on pass 5 failed the step
C23_SwallowedThenFatal ==
    /\ resolve.status = "failed"
    /\ resolve.stepped
    /\ Len(resolve.errors) = 6
    /\ \A i \in Passes : resolve.errors[i]

\* an error on pass 0 was swallowed and the loop converged later
C23_SwallowedThenConverged == resolve.status = "converged" /\ resolve.errors[1] /\ resolve.stepped /\ resolve.step.ok

\* a pass after pass 0 without a change and without an error
Quiet(i) == i > 1 /\ ~resolve.changes[i] /\ ~resolve.errors[i]

\* C24: the resolution ends after at least 2 and at most 20 passes; it stops
\* at the first pass after pass 0 without a change above the tolerance and
\* without an error; when 20 passes complete without convergence and
\* without an error the step succeeds with the values of the last pass.
C24_Terminates ==
    resolve.status # "none" =>
        /\ Len(resolve.errors) <= 20
        /\ resolve.status = "running" => Len(resolve.errors) < 20
        /\ Resolved => Len(resolve.errors) >= 2
        /\ \A i \in Passes : Quiet(i) <=> (resolve.status = "converged" /\ i = Len(resolve.errors))
        /\ resolve.status = "converged" => Quiet(Len(resolve.errors))
        /\ resolve.status = "exhausted" =>
              /\ Len(resolve.errors) = 20
              /\ resolve.stepped => resolve.step.ok /\ resolve.step.state.auxiliaries = resolve.auxs

\* the auxiliaries refer to each other, 20 passes completed and the step succeeded
C24_CycleExhausted == resolve.status = "exhausted" /\ resolve.stepped /\ model = "Cycle"

\* the loop stopped after exactly 2 passes
C24_TwoPasses == resolve.status = "converged" /\ Len(resolve.errors) = 2


\* every auxiliary of names has in st the value of its equation evaluated on st
AuxConsistent(st, names) ==
    \A name \in names :
        /\ evaluate(AuxiliariesOf(model)[name], model, st, st.time).ok
        /\ evaluate(AuxiliariesOf(model)[name], model, st, st.time).val = st.auxiliaries[name]

\* the returned auxiliaries with the stocks they were evaluated on: the
\* stocks of the start state under Euler; under the other integrators the
\* stocks of the last stage, which only the first rung reads
ReturnedOn(start, returned) == [returned EXCEPT !.stocks = start.stocks]
RungsChecked == IF config.integration_method = "Euler" THEN DOMAIN AuxiliariesOf(model) ELSE DOMAIN AuxiliariesOf(model) \ {Rungs[1]}

\* C27: on a chain of auxiliaries of any depth, each defined at the
\* consistent solution, and whatever auxiliary values the previous state
\* carried, the step succeeds and every returned auxiliary equals its
\* equation evaluated on the returned auxiliaries.
C27_ChainResolved ==
    model \in Ladders /\ resolve.stepped =>
        /\ resolve.step.ok
        /\ AuxConsistent(ReturnedOn(resolve.start, resolve.step.state), RungsChecked)

\* the chains on which the step fails have depth 7 or more and start from
\* auxiliaries at 0; on every other chain the returned auxiliaries are consistent
C27_DeepChainFails ==
    model \in Ladders /\ resolve.stepped =>
        IF depth_of(model) >= 7 /\ resolve.start.auxiliaries[Rungs[1]] = Zero
        THEN ~resolve.step.ok /\ resolve.step.err = "Division by zero"
        ELSE resolve.step.ok /\ AuxConsistent(ReturnedOn(resolve.start, resolve.step.state), RungsChecked)


\* the delay with every sample pushed so far, none pruned
Unpruned == [pipeline.delay EXCEPT !.history = pipeline.pushed]

\* a read at or after the latest pushed time
ReadAfterPushes ==
    /\ pipeline.read
    /\ pipeline.pushed # <<>>
    /\ RGe(pipeline.now, pipeline.pushed[Len(pipeline.pushed)].t)

\* C25: after pushes with increasing times, get_delayed_value at a time at
\* or after the latest pushed time returns the value it returns on the
\* history with no sample pruned.
C25_PruningInvisible == ReadAfterPushes => pipeline.out = get_delayed_value(Unpruned, pipeline.now)

\* a read that returns the initial value where the unpruned history interpolates
C25_FallsBackToInitial ==
    /\ ReadAfterPushes
    /\ Len(pipeline.delay.history) < Len(pipeline.pushed)
    /\ pipeline.out = pipeline.delay.initial_value
    /\ get_delayed_value(Unpruned, pipeline.now) # pipeline.delay.initial_value

\* with pushes one time unit apart the pruned and the unpruned history agree
C25_UniformPushes ==
    ReadAfterPushes /\ (\A i \in 2..Len(pipeline.pushed) : RSub(pipeline.pushed[i].t, pipeline.pushed[i - 1].t) = One)
        => pipeline.out = get_delayed_value(Unpruned, pipeline.now)


\* the integrators of the claim on the stages of a step
MultiStage == {"Heun", "RK4", "RK45"}

\* a multi-stage step of the model of time-explicit flows has succeeded on engine e
ClockStepped(e) == model = "Clock" /\ config.integration_method \in MultiStage /\ engine[e].nok > 0

\* the flows of the model as evaluated at time t in the state st
FlowsAt(st, t) == [f \in DOMAIN FlowsOf(model) |-> evaluate(FlowsOf(model)[f], model, st, t).val]

\* C26 as stated: in every stage of a Heun, RK4 or RK45 step TIME, PULSE,
\* STEP and RAMP see the starting time of the step: the flows returned by
\* the step, which are those of its last stage, are the flows at the
\* starting time.
C26_StartTimeSeen ==
    \A e \in DOMAIN engine :
        ClockStepped(e) => engine[e].after.flows = FlowsAt(engine[e].before, engine[e].before.time)

\* C26 amended: every stage of a Heun, RK4 or RK45 step sees its own stage
\* time: the flows returned are those at the time of the last stage, t + h,
\* and the stock fed by TIME grows by h * (t + h / 2), the stage times
\* t + c * h weighted by the integrator's weights.
C26_StageTimeSeen ==
    \A e \in DOMAIN engine :
        ClockStepped(e) =>
            /\ engine[e].after.flows = FlowsAt(engine[e].before, engine[e].after.time)
            /\ engine[e].after.stocks["Elapsed"]
                 = RAdd(engine[e].before.stocks["Elapsed"],
                        RMul(RSub(engine[e].after.time, engine[e].before.time),
                             RDiv(RAdd(engine[e].before.time, engine[e].after.time), Rat(2, 1))))

\* an RK4 step from time 1 returned the flows at time 2, which differ from those at time 1
C26_SecondStep ==
    \E e \in DOMAIN engine :
        /\ ClockStepped(e)
        /\ config.integration_method = "RK4"
        /\ engine[e].before.time = One
        /\ engine[e].after.flows["clock"] = Rat(2, 1)
        /\ engine[e].after.flows["pulsed"] = Zero
        /\ FlowsAt(engine[e].before, engine[e].before.time)["pulsed"] = One


\* a step of the model with a flow and an auxiliary that name a flow has succeeded on engine e
EchoStepped(e) == model = "Echo" /\ engine[e].nok > 0

\* the flow copy and the auxiliary seen, which name the flow src, hold in
\* the returned state the value of src stored in the state the step started from
ReadsStoredFlow(e) ==
    /\ engine[e].after.flows["copy"] = engine[e].before.flows["src"]
    /\ engine[e].after.auxiliaries["seen"] = engine[e].before.flows["src"]

\* C28: under every integrator an equation that names a flow reads the
\* flow's value stored in the state the step started from (0 at the first
\* step), never the value computed for the flow during the step.
C28_ReadsStoredFlow == \A e \in DOMAIN engine : EchoStepped(e) => ReadsStoredFlow(e)

\* under Euler, Heun, RK4 and RK45 the stored value is read
C28_ExplicitIntegrators ==
    \A e \in DOMAIN engine : EchoStepped(e) /\ config.integration_method # "BackwardEuler" => ReadsStoredFlow(e)

\* a first Backward Euler step returns for copy the value computed for src during the step
C28_BackwardEulerReadsCurrent ==
    \E e \in DOMAIN engine :
        /\ EchoStepped(e)
        /\ config.integration_method = "BackwardEuler"
        /\ engine[e].before.flows["src"] = Zero
        /\ engine[e].after.flows["src"] = Rat(2, 1)
        /\ engine[e].after.flows["copy"] = Rat(2, 1)


\* the points of the run() in progress on engine e or returned by the last one
RunPoints(e) == IF engine[e].pc = "run" THEN engine[e].results ELSE engine[e].returned

\* C29: run() does not reset the engine: its first recorded point is the
\* state the engine was in when run() was called, whatever step() and
\* run() calls came before; a run() called at a time at or after stop
\* returns Ok with exactly that one point and leaves the state as it was.
C29_RunFromCurrentState ==
    \A e \in DOMAIN engine :
        engine[e].pc = "run" \/ engine[e].ret = "run_ok" =>
            /\ Len(RunPoints(e)) >= 1
            /\ RunPoints(e)[1] = [time |-> engine[e].entered.time, state |-> engine[e].entered]
            /\ engine[e].ret = "run_ok" /\ RGe(engine[e].entered.time, time_config.stop) =>
                  /\ Len(engine[e].returned) = 1
                  /\ engine[e].state = engine[e].entered

\* a second run() on the same engine, called at the stop time, has returned
\* one point whose time is not the model's start
C29_SecondRun ==
    \E e \in DOMAIN engine :
        /\ engine[e].nruns = 2
        /\ engine[e].ret = "run_ok"
        /\ Len(engine[e].returned) = 1
        /\ engine[e].returned[1].time = time_config.stop
        /\ RLt(time_config.start, time_config.stop)

\* a run() after a step() has returned points that start at the time the step reached
C29_RunAfterStep ==
    \E e \in DOMAIN engine :
        /\ engine[e].nruns = 1 /\ engine[e].nsteps = 1 /\ engine[e].nok = 2
        /\ engine[e].ret = "run_ok"
        /\ Len(engine[e].returned) = 2
        /\ RGt(engine[e].returned[1].time, time_config.start)


\* the integrators that advance by dt
FixedStep == Methods \ {"RK45"}

\* the last iteration of run() on engine e, under a fixed-step integrator,
\* started less than dt before the stop time
Overshot(e) ==
    /\ config.integration_method \in FixedStep
    /\ engine[e].pc = "run" \/ engine[e].ret = "run_ok"
    /\ engine[e].niter > 0
    /\ RGt(RAdd(engine[e].before.time, time_config.dt), time_config.stop)

\* the state a step of length h from the state before the last iteration returns
StepOf(e, h) == integrator_step(config.integration_method, model, engine[e].before, h, engine[e].order, err_profile).state

\* C30: when the last step of run() under a fixed-step integrator goes past
\* the stop time, the stocks are those of the step over the full dt, to
\* the time t_prev + dt > stop, and only the time of the state, and of the
\* point recorded for it, is set to stop.
C30_FullStepClampedTime ==
    \A e \in DOMAIN engine :
        Overshot(e) =>
            /\ engine[e].after.time = RAdd(engine[e].before.time, time_config.dt)
            /\ engine[e].state = [StepOf(e, time_config.dt) EXCEPT !.time = time_config.stop]
            /\ engine[e].iter_recorded =>
                  RunPoints(e)[Len(RunPoints(e))] = [time |-> time_config.stop, state |-> engine[e].state]

\* a run whose last step went past the stop time has returned, and the
\* final recorded stocks differ from those of a step of length stop - t_prev
C30_NotShortened ==
    \E e \in DOMAIN engine :
        /\ Overshot(e)
        /\ engine[e].ret = "run_ok"
        /\ engine[e].returned[Len(engine[e].returned)].time = time_config.stop
        /\ engine[e].returned[Len(engine[e].returned)].state.stocks
             # StepOf(e, RSub(time_config.stop, engine[e].before.time)).stocks

====
